---- MODULE Spec2Model ----
(***************************************************************************)
(* Model of the matrix package of univ-lehavre/abacus: the dense           *)
(* representation (dense.ts), the CSR representation (csr.ts) and the      *)
(* adaptive facade (matrix.ts).                                            *)
(*                                                                         *)
(* Typed arrays are sequences; the element the code reads as a[k] is       *)
(* At(a, k) here (sequences are 1-based).  Values are integers.            *)
(***************************************************************************)
EXTENDS Integers, Sequences, FiniteSets, TLC

VARIABLES
    A,        \* receiver matrix (a representation), or NoMatrix
    B,        \* operand matrix, or NoMatrix
    C,        \* value returned by the last operation, or NoMatrix
    ea,       \* the caller's COO list handed to the construction of A
    eb,       \* the caller's COO list handed to the construction of B
    op,       \* the last operation, a record with field name
    M,        \* the facade under study, or NoMatrix
    Mprev,    \* the facade as it was before the last facade operation
    steps,    \* number of operations applied since construction
    buf       \* the addresses of the backing buffers of A, B and C in the alias runs

vars == <<A, B, C, ea, eb, op, M, Mprev, steps, buf>>

-----------------------------------------------------------------------------
(* Bounds of the model *)

MaxDim == 2        \* rows and cols range over 0..MaxDim
MaxNnz == 4        \* entries of A plus entries of B in the multiplication runs
MaxCells == 8      \* cells of A plus cells of B in the multiplication runs
MaxEntries == 2    \* length of a COO list where duplicates are allowed
MaxSteps == 2      \* operations applied after construction
MaxOperand == 1    \* entries of the operand of add, sub and mul in the operation runs
MaxChoose == 5     \* rows, cols of chooseBackend range over 0..MaxChoose
MaxSets == 1       \* set calls on a facade
MaxWrites == 2     \* set calls after the operation in the alias runs
MaxPairSets == 3   \* set calls applied to a CSR matrix and its dense twin
MaxStored == 3
MaxInner == 3     \* entries of the receiver in the matvec runs

Vals == {-1, 1}              \* non-zero element values
ValsZ == Vals \cup {0}       \* element values, zero included
Scalars == {-1, 0, 2}        \* the numbers a matrix is multiplied by

-----------------------------------------------------------------------------
(* Arrays *)

At(a, k) == a[k + 1]

Fill(n, x) == [k \in 1..n |-> x]

Put(a, k, x) == [a EXCEPT ![k + 1] = x]

Slice(a, from, to) == [k \in 1..(to - from) |-> a[from + k]]

NoMatrix == [kind |-> "none"]

\* no buffer is tracked: the state of buf outside the alias runs
NoBuffers == [A |-> <<>>, B |-> <<>>, C |-> <<>>, next |-> 0]

Thrown(msg) == [kind |-> "error", msg |-> msg]

IsCSR(X) == X.kind = "csr"

IsDense(X) == X.kind = "dense"

IsError(X) == X.kind = "error"

IsFacade(X) == X.kind = "facade"

\* the record of the last operation: its name and its arguments
Op(name, args) == [name |-> name, args |-> args]

-----------------------------------------------------------------------------
(* DenseMatrix (dense.ts) *)

\* new DenseMatrix(rows, cols): a zero-filled buffer of length rows*cols
NewDense(rows, cols) ==
    IF rows < 0 \/ cols < 0
    THEN Thrown("Dimensions invalides")
    ELSE [kind |-> "dense", rows |-> rows, cols |-> cols, data |-> Fill(rows * cols, 0)]

\* new DenseMatrix(rows, cols, data)
NewDenseData(rows, cols, data) ==
    IF rows < 0 \/ cols < 0
    THEN Thrown("Dimensions invalides")
    ELSE IF Len(data) # rows * cols
    THEN Thrown("Taille de donnees incompatible")
    ELSE [kind |-> "dense", rows |-> rows, cols |-> cols, data |-> data]

\* idx(i, j): whether the bounds check passes
DenseInBounds(D, i, j) == ~(i < 0 \/ i >= D.rows \/ j < 0 \/ j >= D.cols)

DenseIdx(D, i, j) == i * D.cols + j

DenseGet(D, i, j) ==
    IF DenseInBounds(D, i, j) THEN At(D.data, DenseIdx(D, i, j)) ELSE Thrown("Indice hors limites")

\* set(i, j, value): the matrix after the call, or the exception
DenseSet(D, i, j, value) ==
    IF DenseInBounds(D, i, j)
    THEN [D EXCEPT !.data = Put(D.data, DenseIdx(D, i, j), value)]
    ELSE Thrown("Indice hors limites")

\* DenseMatrix.from2D(values): values is a sequence of rows
RECURSIVE DenseFrom2DFill(_, _, _, _)
DenseFrom2DFill(D, values, i, j) ==
    IF i >= D.rows THEN D
    ELSE IF j = 0 /\ Len(values[i + 1]) # D.cols THEN Thrown("Lignes de tailles differentes")
    ELSE IF j >= D.cols THEN DenseFrom2DFill(D, values, i + 1, 0)
    ELSE DenseFrom2DFill([D EXCEPT !.data = Put(D.data, i * D.cols + j, values[i + 1][j + 1])],
                         values, i, j + 1)

DenseFrom2D(values) ==
    LET rows == Len(values)
        cols == IF rows > 0 THEN Len(values[1]) ELSE 0
    IN  DenseFrom2DFill(NewDense(rows, cols), values, 0, 0)

\* the inner k loop of Dense x Dense for the cell (i, j), skipping aik = 0
RECURSIVE DenseMulCell(_, _, _, _, _, _)
DenseMulCell(X, Y, i, j, k, acc) ==
    IF k >= X.cols THEN acc
    ELSE LET aik == At(X.data, i * X.cols + k)
         IN  IF aik = 0
             THEN DenseMulCell(X, Y, i, j, k + 1, acc)
             ELSE DenseMulCell(X, Y, i, j, k + 1, acc + aik * At(Y.data, k * Y.cols + j))

\* DenseMatrix.mul(B) for a dense B
DenseMulDense(X, Y) ==
    IF X.cols # Y.rows THEN Thrown("Dimensions incompatibles pour mul")
    ELSE [kind |-> "dense", rows |-> X.rows, cols |-> Y.cols,
          data |-> [n \in 1..(X.rows * Y.cols) |->
                      DenseMulCell(X, Y, (n - 1) \div Y.cols, (n - 1) % Y.cols, 0, 0)]]

\* number of non-zero cells of a dense buffer (the counting loop of repack and from2D)
DenseNonZero(D) == Cardinality({k \in 1..Len(D.data) : D.data[k] # 0})

-----------------------------------------------------------------------------
(* CSRMatrix (csr.ts): construction *)

\* NewCSR without the comparison of rowPtr[rows] with values.length
NewCSRFirstOnly(rows, cols, values, colIndex, rowPtr) ==
    IF Len(rowPtr) # rows + 1 THEN Thrown("rowPtr invalide")
    ELSE IF Len(values) # Len(colIndex) THEN Thrown("values/colIndex longueur differente")
    ELSE IF At(rowPtr, 0) # 0 THEN Thrown("rowPtr non coherent")
    ELSE [kind |-> "csr", rows |-> rows, cols |-> cols,
          values |-> values, colIndex |-> colIndex, rowPtr |-> rowPtr]

\* new CSRMatrix(rows, cols, values, colIndex, rowPtr)
NewCSR(rows, cols, values, colIndex, rowPtr) ==
    IF Len(rowPtr) # rows + 1 THEN Thrown("rowPtr invalide")
    ELSE IF Len(values) # Len(colIndex) THEN Thrown("values/colIndex longueur differente")
    ELSE IF At(rowPtr, 0) # 0 \/ At(rowPtr, Len(rowPtr) - 1) # Len(values)
    THEN Thrown("rowPtr non coherent")
    ELSE [kind |-> "csr", rows |-> rows, cols |-> cols,
          values |-> values, colIndex |-> colIndex, rowPtr |-> rowPtr]

Entry(i, j, v) == [i |-> i, j |-> j, v |-> v]

\* the comparator (a, b) => a.i - b.i || a.j - b.j
CmpEntry(a, b) == IF a.i - b.i # 0 THEN a.i - b.i ELSE a.j - b.j

\* e inserted into the sorted list s after every element that does not compare greater
InsertEntry(s, e) ==
    LET n == Cardinality({k \in 1..Len(s) : CmpEntry(s[k], e) <= 0})
    IN  SubSeq(s, 1, n) \o <<e>> \o SubSeq(s, n + 1, Len(s))

\* entries.sort(cmp): Array.prototype.sort is stable
RECURSIVE SortPrefix(_, _)
SortPrefix(s, n) == IF n = 0 THEN <<>> ELSE InsertEntry(SortPrefix(s, n - 1), s[n])

SortEntries(s) == SortPrefix(s, Len(s))

\* EntryOutOfBounds testing the row index only
EntryOutOfBoundsRow(rows, cols, e) == e.i < 0 \/ e.i >= rows

EntryOutOfBounds(rows, cols, e) == e.i < 0 \/ e.i >= rows \/ e.j < 0 \/ e.j >= cols

\* rowPtr after the counting loop: rowPtr[e.i + 1]++ for every entry
CountRows(rows, entries) ==
    [r \in 1..(rows + 1) |-> Cardinality({k \in 1..Len(entries) : entries[k].i + 1 = r - 1})]

\* for (r = 0; r < rows; r++) rowPtr[r + 1] += rowPtr[r]
RECURSIVE PrefixSum(_, _, _)
PrefixSum(rowPtr, r, rows) ==
    IF r >= rows THEN rowPtr
    ELSE PrefixSum(Put(rowPtr, r + 1, At(rowPtr, r + 1) + At(rowPtr, r)), r + 1, rows)

\* the scatter loop: k = cursor[i]++; values[k] = v; colIndex[k] = j
RECURSIVE Scatter(_, _, _)
Scatter(entries, n, st) ==
    IF n > Len(entries) THEN st
    ELSE LET e == entries[n]
             k == At(st.cursor, e.i)
         IN  Scatter(entries, n + 1,
                     [cursor |-> Put(st.cursor, e.i, k + 1),
                      values |-> Put(st.values, k, e.v),
                      colIndex |-> Put(st.colIndex, k, e.j)])

\* CSRMatrix.fromCOO(rows, cols, entries): the returned matrix, or the exception
FromCOO(rows, cols, entries) ==
    LET sorted == SortEntries(entries)
    IN  IF \E k \in 1..Len(sorted) : EntryOutOfBounds(rows, cols, sorted[k])
        THEN Thrown("Indice hors limites")
        ELSE LET rowPtr == PrefixSum(CountRows(rows, sorted), 0, rows)
                 nnz == At(rowPtr, rows)
                 st == Scatter(sorted, 1, [cursor |-> rowPtr,
                                           values |-> Fill(nnz, 0),
                                           colIndex |-> Fill(nnz, 0)])
             IN  NewCSR(rows, cols, st.values, st.colIndex, rowPtr)

\* the caller's list after fromCOO: entries.sort sorts it in place
FromCOOList(entries) == SortEntries(entries)

\* CSRMatrix.toDense(): A.set(i, colIndex[k], values[k]) for every stored entry
RECURSIVE CSRToDenseRow(_, _, _, _)
CSRToDenseRow(X, D, i, k) ==
    IF i >= X.rows THEN D
    ELSE IF k >= At(X.rowPtr, i + 1)
    THEN CSRToDenseRow(X, D, i + 1, IF i + 1 < X.rows THEN At(X.rowPtr, i + 1) ELSE 0)
    ELSE CSRToDenseRow(X, DenseSet(D, i, At(X.colIndex, k), At(X.values, k)), i, k + 1)

CSRToDense(X) ==
    CSRToDenseRow(X, NewDense(X.rows, X.cols), 0, IF X.rows > 0 THEN At(X.rowPtr, 0) ELSE 0)

\* CSRMatrix.get(i, j): linear scan of the row, stopping at the first larger column
RECURSIVE CSRGetScan(_, _, _, _)
CSRGetScan(X, k, end, j) ==
    IF k >= end THEN 0
    ELSE IF At(X.colIndex, k) = j THEN At(X.values, k)
    ELSE IF At(X.colIndex, k) > j THEN 0
    ELSE CSRGetScan(X, k + 1, end, j)

CSRGet(X, i, j) ==
    IF i < 0 \/ i >= X.rows \/ j < 0 \/ j >= X.cols
    THEN Thrown("Indice hors limites")
    ELSE CSRGetScan(X, At(X.rowPtr, i), At(X.rowPtr, i + 1), j)

-----------------------------------------------------------------------------
(* CSRMatrix.mul(B) for a CSR B: the two-pass algorithm *)

\* pass 1, innermost statement: if (marker[j] !== i) { marker[j] = i; rowCounts[i]++ }
Pass1Mark(st, i, j) ==
    IF At(st.marker, j) # i
    THEN [marker |-> Put(st.marker, j, i),
          rowCounts |-> Put(st.rowCounts, i, At(st.rowCounts, i) + 1)]
    ELSE st

\* pass 1, loop over bk in [bk, bEnd)
RECURSIVE Pass1B(_, _, _, _, _)
Pass1B(Y, st, i, bk, bEnd) ==
    IF bk >= bEnd THEN st
    ELSE Pass1B(Y, Pass1Mark(st, i, At(Y.colIndex, bk)), i, bk + 1, bEnd)

\* pass 1, loop over ak in [ak, aEnd)
RECURSIVE Pass1A(_, _, _, _, _, _)
Pass1A(X, Y, st, i, ak, aEnd) ==
    IF ak >= aEnd THEN st
    ELSE LET k == At(X.colIndex, ak)
         IN  Pass1A(X, Y, Pass1B(Y, st, i, At(Y.rowPtr, k), At(Y.rowPtr, k + 1)), i, ak + 1, aEnd)

\* pass 1, loop over the rows i
RECURSIVE Pass1Rows(_, _, _, _)
Pass1Rows(X, Y, st, i) ==
    IF i >= X.rows THEN st
    ELSE Pass1Rows(X, Y, Pass1A(X, Y, st, i, At(X.rowPtr, i), At(X.rowPtr, i + 1)), i + 1)

\* rowCounts after pass 1
Pass1(X, Y) ==
    Pass1Rows(X, Y, [marker |-> Fill(Y.cols, -1), rowCounts |-> Fill(X.rows, 0)], 0).rowCounts

\* for (r = 0; r < rows; r++) rowPtr[r + 1] = rowPtr[r] + rowCounts[r]
RECURSIVE CapacityPrefix(_, _, _)
CapacityPrefix(rowPtr, rowCounts, r) ==
    IF r >= Len(rowCounts) THEN rowPtr
    ELSE CapacityPrefix(Put(rowPtr, r + 1, At(rowPtr, r) + At(rowCounts, r)), rowCounts, r + 1)

\* Pass2Add with the sum replaced by an assignment: values[pos[j]] = prod
Pass2AddOverwrite(st, j, prod) ==
    [st EXCEPT !.values = Put(st.values, At(st.pos, j), prod)]

\* pass 2, the else branch: values[pos[j]] += prod
Pass2Add(st, j, prod) ==
    [st EXCEPT !.values = Put(st.values, At(st.pos, j), At(st.values, At(st.pos, j)) + prod)]

\* Pass2Place without the test of marker: every non-zero product takes a new slot
Pass2PlaceUnmarked(st, i, j, prod) ==
    IF prod = 0 THEN st
    ELSE [st EXCEPT !.marker = Put(st.marker, j, i),
                    !.pos = Put(st.pos, j, st.cursor),
                    !.colIndex = Put(st.colIndex, st.cursor, j),
                    !.values = Put(st.values, st.cursor, prod),
                    !.cursor = st.cursor + 1]

\* pass 2, innermost statement for the product prod at column j
Pass2Place(st, i, j, prod) ==
    IF prod = 0 THEN st
    ELSE IF At(st.marker, j) # i
    THEN [st EXCEPT !.marker = Put(st.marker, j, i),
                    !.pos = Put(st.pos, j, st.cursor),
                    !.colIndex = Put(st.colIndex, st.cursor, j),
                    !.values = Put(st.values, st.cursor, prod),
                    !.cursor = st.cursor + 1]
    ELSE Pass2Add(st, j, prod)

\* pass 2, loop over bk in [bk, bEnd)
RECURSIVE Pass2B(_, _, _, _, _, _)
Pass2B(Y, st, i, aik, bk, bEnd) ==
    IF bk >= bEnd THEN st
    ELSE Pass2B(Y, Pass2Place(st, i, At(Y.colIndex, bk), aik * At(Y.values, bk)),
                i, aik, bk + 1, bEnd)

\* pass 2, loop over ak in [ak, aEnd); a stored aik = 0 is skipped
RECURSIVE Pass2A(_, _, _, _, _, _)
Pass2A(X, Y, st, i, ak, aEnd) ==
    IF ak >= aEnd THEN st
    ELSE LET k == At(X.colIndex, ak)
             aik == At(X.values, ak)
         IN  IF aik = 0
             THEN Pass2A(X, Y, st, i, ak + 1, aEnd)
             ELSE Pass2A(X, Y, Pass2B(Y, st, i, aik, At(Y.rowPtr, k), At(Y.rowPtr, k + 1)),
                         i, ak + 1, aEnd)

\* order.sort((a, b) => colsTmp[a] - colsTmp[b]): t inserted after every index
\* whose column is not greater
InsertOrder(order, colsTmp, t) ==
    LET n == Cardinality({x \in 1..Len(order) : At(colsTmp, order[x]) - At(colsTmp, t) <= 0})
    IN  SubSeq(order, 1, n) \o <<t>> \o SubSeq(order, n + 1, Len(order))

RECURSIVE SortOrder(_, _)
SortOrder(colsTmp, n) ==
    IF n = 0 THEN <<>> ELSE InsertOrder(SortOrder(colsTmp, n - 1), colsTmp, n - 1)

\* CompactWrite without the test (v === 0) continue
CompactWriteKeepZero(st, start, j, v) ==
    IF st.w > start /\ j = At(st.colIndex, st.w - 1)
    THEN LET sum == At(st.values, st.w - 1) + v
         IN  IF sum # 0
             THEN [st EXCEPT !.values = Put(st.values, st.w - 1, sum)]
             ELSE [st EXCEPT !.w = st.w - 1]
    ELSE [st EXCEPT !.colIndex = Put(st.colIndex, st.w, j),
                    !.values = Put(st.values, st.w, v),
                    !.w = st.w + 1]

\* compaction, the body of the loop over order for the pair (j, v)
CompactWrite(st, start, j, v) ==
    IF v = 0 THEN st
    ELSE IF st.w > start /\ j = At(st.colIndex, st.w - 1)
    THEN LET sum == At(st.values, st.w - 1) + v
         IN  IF sum # 0
             THEN [st EXCEPT !.values = Put(st.values, st.w - 1, sum)]
             ELSE [st EXCEPT !.w = st.w - 1]
    ELSE [st EXCEPT !.colIndex = Put(st.colIndex, st.w, j),
                    !.values = Put(st.values, st.w, v),
                    !.w = st.w + 1]

\* compaction, loop over idx in [idx, order.length)
RECURSIVE CompactLoop(_, _, _, _, _, _)
CompactLoop(st, start, order, colsTmp, valsTmp, idx) ==
    IF idx >= Len(order) THEN st
    ELSE LET t == At(order, idx)
         IN  CompactLoop(CompactWrite(st, start, At(colsTmp, t), At(valsTmp, t)),
                         start, order, colsTmp, valsTmp, idx + 1)

\* compaction of row i once its products are accumulated: sets rowPtr[i + 1]
CompactRow(st, i) ==
    LET start == At(st.rowPtr, i)
        len == st.cursor - start
    IN  IF len <= 0
        THEN [st EXCEPT !.rowPtr = Put(st.rowPtr, i + 1, start)]
        ELSE LET colsTmp == Slice(st.colIndex, start, start + len)
                 valsTmp == Slice(st.values, start, start + len)
                 order == SortOrder(colsTmp, len)
                 done == CompactLoop([colIndex |-> st.colIndex, values |-> st.values, w |-> start],
                                     start, order, colsTmp, valsTmp, 0)
             IN  [st EXCEPT !.colIndex = done.colIndex,
                            !.values = done.values,
                            !.rowPtr = Put(st.rowPtr, i + 1, done.w)]

\* pass 2, loop over the rows i
RECURSIVE Pass2Rows(_, _, _, _)
Pass2Rows(X, Y, st, i) ==
    IF i >= X.rows THEN st
    ELSE LET begun == [st EXCEPT !.cursor = At(st.rowPtr, i)]
             filled == Pass2A(X, Y, begun, i, At(X.rowPtr, i), At(X.rowPtr, i + 1))
         IN  Pass2Rows(X, Y, CompactRow(filled, i), i + 1)

\* the state of pass 2 after its last row
Pass2(X, Y) ==
    LET rowPtr == CapacityPrefix(Fill(X.rows + 1, 0), Pass1(X, Y), 0)
        cap == At(rowPtr, X.rows)
    IN  Pass2Rows(X, Y, [marker |-> Fill(Y.cols, -1), pos |-> Fill(Y.cols, 0),
                         colIndex |-> Fill(cap, 0), values |-> Fill(cap, 0),
                         rowPtr |-> rowPtr, cursor |-> 0], 0)

\* CSRMatrix.mul(B) with B a CSRMatrix
CSRMulCSR(X, Y) ==
    IF X.cols # Y.rows THEN Thrown("Dimensions incompatibles pour mul")
    ELSE LET st == Pass2(X, Y)
             nnz == At(st.rowPtr, X.rows)
         IN  NewCSR(X.rows, Y.cols, Slice(st.values, 0, nnz), Slice(st.colIndex, 0, nnz),
                    st.rowPtr)

-----------------------------------------------------------------------------
(* CSRMatrix.mul(B) for a CSR B, the other version: one Map accumulator per row *)

\* the Map with no key
EmptyMap == [c \in {} |-> 0]

\* MapAccumulate keeping a key whose sum is 0: acc.set(j, sum) in both cases
MapAccumulateKeepZero(acc, j, prod) ==
    IF prod = 0 THEN acc
    ELSE LET prev == IF j \in DOMAIN acc THEN acc[j] ELSE 0
         IN  [c \in DOMAIN acc \cup {j} |-> IF c = j THEN prev + prod ELSE acc[c]]

\* the innermost statement for the product prod at column j: acc.get(j) ?? 0, then
\* acc.set(j, sum) if sum !== 0, else acc.delete(j)
MapAccumulate(acc, j, prod) ==
    IF prod = 0 THEN acc
    ELSE LET prev == IF j \in DOMAIN acc THEN acc[j] ELSE 0
             sum == prev + prod
         IN  IF sum # 0
             THEN [c \in DOMAIN acc \cup {j} |-> IF c = j THEN sum ELSE acc[c]]
             ELSE [c \in DOMAIN acc \ {j} |-> acc[c]]

\* loop over t in [t, bEnd)
RECURSIVE MapB(_, _, _, _, _)
MapB(Y, acc, a, t, bEnd) ==
    IF t >= bEnd THEN acc
    ELSE MapB(Y, MapAccumulate(acc, At(Y.colIndex, t), a * At(Y.values, t)), a, t + 1, bEnd)

\* loop over kk in [kk, aEnd); a stored a = 0 is skipped
RECURSIVE MapA(_, _, _, _, _)
MapA(X, Y, acc, kk, aEnd) ==
    IF kk >= aEnd THEN acc
    ELSE LET k == At(X.colIndex, kk)
             a == At(X.values, kk)
         IN  IF a = 0
             THEN MapA(X, Y, acc, kk + 1, aEnd)
             ELSE MapA(X, Y, MapB(Y, acc, a, At(Y.rowPtr, k), At(Y.rowPtr, k + 1)),
                       kk + 1, aEnd)

\* Array.from(acc.keys()).sort((x, y) => x - y): the keys in increasing order
RECURSIVE SortedKeys(_)
SortedKeys(S) ==
    IF S = {} THEN <<>>
    ELSE LET least == CHOOSE x \in S : \A y \in S : x <= y
         IN  <<least>> \o SortedKeys(S \ {least})

\* loop over the rows i: the keys of the row's Map are pushed in increasing order
\* with their sums, outRowPtr[i + 1] = outRowPtr[i] + js.length
RECURSIVE MapRows(_, _, _, _)
MapRows(X, Y, out, i) ==
    IF i >= X.rows THEN out
    ELSE LET acc == MapA(X, Y, EmptyMap, At(X.rowPtr, i), At(X.rowPtr, i + 1))
             js == SortedKeys(DOMAIN acc)
         IN  MapRows(X, Y,
                     [outColIndex |-> out.outColIndex \o js,
                      outValues |-> out.outValues \o [x \in 1..Len(js) |-> acc[js[x]]],
                      outRowPtr |-> Put(out.outRowPtr, i + 1, At(out.outRowPtr, i) + Len(js))],
                     i + 1)

\* CSRMatrix.mul(B) with B a CSRMatrix, Map version
CSRMulCSRMap(X, Y) ==
    IF X.cols # Y.rows THEN Thrown("Dimensions incompatibles pour mul")
    ELSE LET out == MapRows(X, Y, [outColIndex |-> <<>>, outValues |-> <<>>,
                                   outRowPtr |-> Fill(X.rows + 1, 0)], 0)
         IN  NewCSR(X.rows, Y.cols, out.outValues, out.outColIndex, out.outRowPtr)

-----------------------------------------------------------------------------
(* CSRMatrix (csr.ts): set, add, sub, scalar mul, transpose, matvec, fromDense *)

\* the stored entries as triplets, in storage order: the loop over r and k
RECURSIVE CSREntriesFrom(_, _, _)
CSREntriesFrom(X, r, k) ==
    IF r >= X.rows THEN <<>>
    ELSE IF k >= At(X.rowPtr, r + 1)
    THEN CSREntriesFrom(X, r + 1, IF r + 1 < X.rows THEN At(X.rowPtr, r + 1) ELSE 0)
    ELSE <<Entry(r, At(X.colIndex, k), At(X.values, k))>> \o CSREntriesFrom(X, r, k + 1)

CSREntries(X) == CSREntriesFrom(X, 0, IF X.rows > 0 THEN At(X.rowPtr, 0) ELSE 0)

\* CSRFromDense emitting a triplet for every cell, zero cells included
CSRFromDenseEveryCell(D) ==
    FromCOO(D.rows, D.cols,
            [c \in 1..(D.rows * D.cols) |->
                Entry((c - 1) \div D.cols, (c - 1) % D.cols, D.data[c])])

\* CSRMatrix.fromDense(A): the non-zero cells in row-major order, then fromCOO
CSRFromDense(D) ==
    LET cells == {c \in 1..(D.rows * D.cols) : D.data[c] # 0}
        triplets == [n \in 1..Cardinality(cells) |->
                       LET c == CHOOSE x \in cells : Cardinality({y \in cells : y < x}) = n - 1
                       IN  Entry((c - 1) \div D.cols, (c - 1) % D.cols, D.data[c])]
    IN  FromCOO(D.rows, D.cols, triplets)

\* the update loop of set: the first entry at (i, j) takes the value, else one is pushed
SetEntry(entries, i, j, value) ==
    LET hits == {n \in 1..Len(entries) : entries[n].i = i /\ entries[n].j = j}
    IN  IF hits # {}
        THEN LET n == CHOOSE x \in hits : \A y \in hits : x <= y
             IN  [entries EXCEPT ![n] = Entry(i, j, value)]
        ELSE Append(entries, Entry(i, j, value))

\* the filter of set keeping every entry
KeepEntries(entries) == entries

\* entries.filter(t => t.v !== 0)
RECURSIVE FilterNonZero(_)
FilterNonZero(entries) ==
    IF entries = <<>> THEN <<>>
    ELSE IF Head(entries).v # 0
    THEN <<Head(entries)>> \o FilterNonZero(Tail(entries))
    ELSE FilterNonZero(Tail(entries))

\* CSRMatrix.set(i, j, value): the matrix after the call, or the exception
CSRSet(X, i, j, value) ==
    IF i < 0 \/ i >= X.rows \/ j < 0 \/ j >= X.cols
    THEN Thrown("Indice hors limites")
    ELSE LET rebuilt == FromCOO(X.rows, X.cols,
                                FilterNonZero(SetEntry(CSREntries(X), i, j, value)))
         IN  [X EXCEPT !.values = rebuilt.values,
                       !.colIndex = rebuilt.colIndex,
                       !.rowPtr = rebuilt.rowPtr]

\* MergeRow dropping every entry whose value is 0, also in a column of one operand only
RECURSIVE MergeRowPruning(_, _, _, _, _, _)
MergeRowPruning(X, Y, sign, i, a, b) ==
    LET aEnd == At(X.rowPtr, i + 1)
        bEnd == At(Y.rowPtr, i + 1)
        Kept(e) == IF e.v # 0 THEN <<e>> ELSE <<>>
    IN  IF ~(a < aEnd \/ b < bEnd) THEN <<>>
        ELSE IF b >= bEnd \/ (a < aEnd /\ At(X.colIndex, a) < At(Y.colIndex, b))
        THEN Kept(Entry(i, At(X.colIndex, a), At(X.values, a)))
             \o MergeRowPruning(X, Y, sign, i, a + 1, b)
        ELSE IF a >= aEnd \/ (b < bEnd /\ At(Y.colIndex, b) < At(X.colIndex, a))
        THEN Kept(Entry(i, At(Y.colIndex, b), sign * At(Y.values, b)))
             \o MergeRowPruning(X, Y, sign, i, a, b + 1)
        ELSE Kept(Entry(i, At(X.colIndex, a), At(X.values, a) + sign * At(Y.values, b)))
             \o MergeRowPruning(X, Y, sign, i, a + 1, b + 1)

\* MergeRow pushing the combined value of a shared column even when it is 0
RECURSIVE MergeRowKeepZero(_, _, _, _, _, _)
MergeRowKeepZero(X, Y, sign, i, a, b) ==
    LET aEnd == At(X.rowPtr, i + 1)
        bEnd == At(Y.rowPtr, i + 1)
    IN  IF ~(a < aEnd \/ b < bEnd) THEN <<>>
        ELSE IF b >= bEnd \/ (a < aEnd /\ At(X.colIndex, a) < At(Y.colIndex, b))
        THEN <<Entry(i, At(X.colIndex, a), At(X.values, a))>>
             \o MergeRowKeepZero(X, Y, sign, i, a + 1, b)
        ELSE IF a >= aEnd \/ (b < bEnd /\ At(Y.colIndex, b) < At(X.colIndex, a))
        THEN <<Entry(i, At(Y.colIndex, b), sign * At(Y.values, b))>>
             \o MergeRowKeepZero(X, Y, sign, i, a, b + 1)
        ELSE <<Entry(i, At(X.colIndex, a), At(X.values, a) + sign * At(Y.values, b))>>
             \o MergeRowKeepZero(X, Y, sign, i, a + 1, b + 1)

\* the merge loop of add (sign = 1) and sub (sign = -1) on row i, cursors a and b
RECURSIVE MergeRow(_, _, _, _, _, _)
MergeRow(X, Y, sign, i, a, b) ==
    LET aEnd == At(X.rowPtr, i + 1)
        bEnd == At(Y.rowPtr, i + 1)
    IN  IF ~(a < aEnd \/ b < bEnd) THEN <<>>
        ELSE IF b >= bEnd \/ (a < aEnd /\ At(X.colIndex, a) < At(Y.colIndex, b))
        THEN <<Entry(i, At(X.colIndex, a), At(X.values, a))>>
             \o MergeRow(X, Y, sign, i, a + 1, b)
        ELSE IF a >= aEnd \/ (b < bEnd /\ At(Y.colIndex, b) < At(X.colIndex, a))
        THEN <<Entry(i, At(Y.colIndex, b), sign * At(Y.values, b))>>
             \o MergeRow(X, Y, sign, i, a, b + 1)
        ELSE LET v == At(X.values, a) + sign * At(Y.values, b)
             IN  (IF v # 0 THEN <<Entry(i, At(X.colIndex, a), v)>> ELSE <<>>)
                 \o MergeRow(X, Y, sign, i, a + 1, b + 1)

\* the loop over the rows of add and sub
RECURSIVE MergeRows(_, _, _, _)
MergeRows(X, Y, sign, i) ==
    IF i >= X.rows THEN <<>>
    ELSE MergeRow(X, Y, sign, i, At(X.rowPtr, i), At(Y.rowPtr, i))
         \o MergeRows(X, Y, sign, i + 1)

\* CSR + CSR and CSR - CSR
CSRMerge(X, Y, sign) == FromCOO(X.rows, X.cols, MergeRows(X, Y, sign, 0))

\* CSRScale returning the empty matrix when the scalar is 0
CSRScalePruning(X, s) ==
    IF s = 0 THEN NewCSR(X.rows, X.cols, <<>>, <<>>, Fill(X.rows + 1, 0))
    ELSE NewCSR(X.rows, X.cols, [k \in 1..Len(X.values) |-> X.values[k] * s],
                X.colIndex, X.rowPtr)

\* CSRMatrix.mul(B) with B a number
CSRScale(X, s) ==
    NewCSR(X.rows, X.cols, [k \in 1..Len(X.values) |-> X.values[k] * s], X.colIndex, X.rowPtr)

\* CSRMatrix.transpose(): every (i, j, v) re-emitted as (j, i, v), then fromCOO
CSRTranspose(X) ==
    LET e == CSREntries(X)
    IN  FromCOO(X.cols, X.rows, [n \in 1..Len(e) |-> Entry(e[n].j, e[n].i, e[n].v)])

\* the inner loop of CSRMatrix.matvec for row i
RECURSIVE CSRRowDot(_, _, _, _, _)
CSRRowDot(X, x, k, end, sum) ==
    IF k >= end THEN sum
    ELSE CSRRowDot(X, x, k + 1, end, sum + At(X.values, k) * At(x, At(X.colIndex, k)))

\* CSRMatvec using only the first stored entry of each row
CSRMatvecFirstEntry(X, x) ==
    IF Len(x) # X.cols THEN Thrown("Taille du vecteur incompatible")
    ELSE [kind |-> "vector",
          data |-> [r \in 1..X.rows |->
                      CSRRowDot(X, x, At(X.rowPtr, r - 1),
                                IF At(X.rowPtr, r) > At(X.rowPtr, r - 1)
                                THEN At(X.rowPtr, r - 1) + 1 ELSE At(X.rowPtr, r), 0)]]

CSRMatvec(X, x) ==
    IF Len(x) # X.cols THEN Thrown("Taille du vecteur incompatible")
    ELSE [kind |-> "vector",
          data |-> [r \in 1..X.rows |->
                      CSRRowDot(X, x, At(X.rowPtr, r - 1), At(X.rowPtr, r), 0)]]

\* CSR x Dense, the loop over the stored entries k of row i for the cell (i, c)
RECURSIVE CSRMulDenseCell(_, _, _, _, _, _)
CSRMulDenseCell(X, Y, c, k, end, acc) ==
    IF k >= end THEN acc
    ELSE CSRMulDenseCell(X, Y, c, k + 1, end,
                         acc + At(X.values, k) * At(Y.data, At(X.colIndex, k) * Y.cols + c))

\* CSRMatrix.mul(B) with B a DenseMatrix
CSRMulDense(X, Y) ==
    [kind |-> "dense", rows |-> X.rows, cols |-> Y.cols,
     data |-> [n \in 1..(X.rows * Y.cols) |->
                 LET i == (n - 1) \div Y.cols
                 IN  CSRMulDenseCell(X, Y, (n - 1) % Y.cols,
                                     At(X.rowPtr, i), At(X.rowPtr, i + 1), 0)]]

-----------------------------------------------------------------------------
(* DenseMatrix (dense.ts): add, sub, scalar mul, transpose, matvec *)

\* the elementwise loop of add (sign = 1) and sub (sign = -1), both dense
DenseCombine(X, Y, sign) ==
    [kind |-> "dense", rows |-> X.rows, cols |-> X.cols,
     data |-> [k \in 1..Len(X.data) |-> X.data[k] + sign * Y.data[k]]]

DenseScale(X, s) ==
    [kind |-> "dense", rows |-> X.rows, cols |-> X.cols,
     data |-> [k \in 1..Len(X.data) |-> X.data[k] * s]]

\* out.data[j * R + i] = this.data[i * C + j]
DenseTranspose(X) ==
    [kind |-> "dense", rows |-> X.cols, cols |-> X.rows,
     data |-> [n \in 1..(X.rows * X.cols) |->
                 LET j == (n - 1) \div X.rows
                     i == (n - 1) % X.rows
                 IN  At(X.data, i * X.cols + j)]]

RECURSIVE DenseRowDot(_, _, _, _, _)
DenseRowDot(X, x, i, k, sum) ==
    IF k >= X.cols THEN sum
    ELSE DenseRowDot(X, x, i, k + 1, sum + At(X.data, i * X.cols + k) * At(x, k))

DenseMatvec(X, x) ==
    IF Len(x) # X.cols THEN Thrown("Taille du vecteur incompatible")
    ELSE [kind |-> "vector", data |-> [r \in 1..X.rows |-> DenseRowDot(X, x, r - 1, 0, 0)]]

-----------------------------------------------------------------------------
(* The operations of IMatrix, dispatched on the representation *)

\* rows and cols of an IMatrix: fields of a representation, getters of a facade
Rows(X) == IF IsFacade(X) THEN X.impl.rows ELSE X.rows

Cols(X) == IF IsFacade(X) THEN X.impl.cols ELSE X.cols

\* toDense(): DenseMatrix returns a copy, CSRMatrix scatters its entries, a facade
\* returns the toDense() of its representation
ToDense(X) ==
    IF IsCSR(X) THEN CSRToDense(X)
    ELSE IF IsFacade(X) THEN (IF IsCSR(X.impl) THEN CSRToDense(X.impl) ELSE X.impl)
    ELSE X

\* get(i, j) for in-bounds (i, j)
Get(X, i, j) == IF IsCSR(X) THEN CSRGet(X, i, j) ELSE DenseGet(X, i, j)

Set(X, i, j, value) == IF IsCSR(X) THEN CSRSet(X, i, j, value) ELSE DenseSet(X, i, j, value)

\* Combine rejecting only the operands that differ in both dimensions, and returning
\* the dense copy of the receiver for those that differ in one
CombineLenient(X, Y, sign) ==
    IF X.rows # Rows(Y) /\ X.cols # Cols(Y)
    THEN Thrown(IF sign = 1 THEN "Dimensions incompatibles pour add"
                ELSE "Dimensions incompatibles pour sub")
    ELSE IF X.rows # Rows(Y) \/ X.cols # Cols(Y) THEN ToDense(X)
    ELSE IF IsCSR(X) /\ IsCSR(Y) THEN CSRMerge(X, Y, sign)
    ELSE DenseCombine(ToDense(X), ToDense(Y), sign)

\* add (sign = 1) and sub (sign = -1)
Combine(X, Y, sign) ==
    IF X.rows # Rows(Y) \/ X.cols # Cols(Y)
    THEN Thrown(IF sign = 1 THEN "Dimensions incompatibles pour add"
                ELSE "Dimensions incompatibles pour sub")
    ELSE IF IsCSR(X) /\ IsCSR(Y) THEN CSRMerge(X, Y, sign)
    ELSE DenseCombine(ToDense(X), ToDense(Y), sign)

\* mul(B) with B a number
Scale(X, s) == IF IsCSR(X) THEN CSRScale(X, s) ELSE DenseScale(X, s)

\* mul(B) with B a matrix
Mul(X, Y) ==
    IF X.cols # Rows(Y) THEN Thrown("Dimensions incompatibles pour mul")
    ELSE IF IsCSR(X) /\ IsCSR(Y) THEN CSRMulCSR(X, Y)
    ELSE IF IsCSR(X) THEN CSRMulDense(X, ToDense(Y))
    ELSE DenseMulDense(X, ToDense(Y))

Transpose(X) == IF IsCSR(X) THEN CSRTranspose(X) ELSE DenseTranspose(X)

Matvec(X, x) == IF IsCSR(X) THEN CSRMatvec(X, x) ELSE DenseMatvec(X, x)

-----------------------------------------------------------------------------
(* Matrix, the adaptive facade (matrix.ts) *)

\* a threshold is the fraction <<numerator, denominator>>, denominator > 0
DefaultThreshold == <<1, 5>>

\* the argument of a call that leaves the optional threshold out
Undefined == <<>>

WithDefault(th) == IF th = Undefined THEN DefaultThreshold ELSE th

\* density = size > 0 ? nnz / size : 0, as a fraction
Density(rows, cols, nnz) ==
    LET size == rows * cols
    IN  IF size > 0 THEN <<nnz, size>> ELSE <<0, 1>>

\* ChooseBackend returning csr only below the threshold (density < threshold)
ChooseBackendStrict(rows, cols, nnz, th) ==
    LET d == Density(rows, cols, nnz)
        t == WithDefault(th)
    IN  IF d[1] * t[2] < t[1] * d[2] THEN "csr" ELSE "dense"

\* Matrix.chooseBackend(rows, cols, nnz, threshold = 0.2)
ChooseBackend(rows, cols, nnz, th) ==
    LET d == Density(rows, cols, nnz)
        t == WithDefault(th)
    IN  IF d[1] * t[2] <= t[1] * d[2] THEN "csr" ELSE "dense"

\* new Matrix(impl, threshold); ref names the object impl points to
Facade(impl, th, ref) ==
    [kind |-> "facade", impl |-> impl, threshold |-> th, ref |-> ref]

\* get backend()
Backend(F) == IF IsCSR(F.impl) THEN "csr" ELSE "dense"

\* Matrix.wrap: new Matrix(impl, threshold) is a new object, placed at the address
\* fresh, whatever the receiver of the operation that wraps
WrapObject(receiver, fresh) == fresh

\* Matrix.wrap(impl, threshold): an exception thrown while computing impl propagates
Wrap(impl, th) == IF IsError(impl) THEN impl ELSE Facade(impl, th, 0)

\* B instanceof Matrix ? B.impl : B
Unwrap(X) == IF IsFacade(X) THEN X.impl ELSE X

\* Matrix.zeros(rows, cols, threshold = 0.2)
MatrixZeros(rows, cols, th) ==
    Wrap(NewCSR(rows, cols, <<>>, <<>>, <<0>>), WithDefault(th))

\* the loop for (const {i, j, v} of entries) A.set(i, j, v)
RECURSIVE DenseSetAll(_, _, _)
DenseSetAll(D, entries, n) ==
    IF n > Len(entries) \/ IsError(D) THEN D
    ELSE DenseSetAll(DenseSet(D, entries[n].i, entries[n].j, entries[n].v), entries, n + 1)

\* FromCOONnz counting the positions that hold a non-zero value
FromCOONnzCells(entries) ==
    Cardinality({<<entries[n].i, entries[n].j>> : n \in {x \in 1..Len(entries) : entries[x].v # 0}})

\* the density estimate of Matrix.fromCOO: nnz = entries.length
FromCOONnz(entries) == Len(entries)

\* Matrix.fromCOO(rows, cols, entries, threshold = 0.2)
MatrixFromCOO(rows, cols, entries, th) ==
    IF ChooseBackend(rows, cols, FromCOONnz(entries), WithDefault(th)) = "dense"
    THEN Wrap(DenseSetAll(NewDense(rows, cols), entries, 1), WithDefault(th))
    ELSE Wrap(FromCOO(rows, cols, entries), WithDefault(th))

\* Matrix.identity(n, threshold = 0.2)
MatrixIdentity(n, th) ==
    MatrixFromCOO(n, n, [k \in 1..n |-> Entry(k - 1, k - 1, 1)], WithDefault(th))

\* the non-zero cells of a rectangular 2-D array as triplets, in row-major order
RECURSIVE TripletsOf2D(_, _, _, _)
TripletsOf2D(values, cols, i, j) ==
    IF i >= Len(values) THEN <<>>
    ELSE IF j >= cols THEN TripletsOf2D(values, cols, i + 1, 0)
    ELSE (IF values[i + 1][j + 1] # 0 THEN <<Entry(i, j, values[i + 1][j + 1])>> ELSE <<>>)
         \o TripletsOf2D(values, cols, i, j + 1)

\* Matrix.from2D(values, threshold = 0.2)
MatrixFrom2D(values, th) ==
    LET rows == Len(values)
        cols == IF rows > 0 THEN Len(values[1]) ELSE 0
    IN  IF \E i \in 1..rows : Len(values[i]) # cols
        THEN Thrown("Lignes de tailles differentes")
        ELSE LET nnz == Cardinality({<<i, j>> \in (1..rows) \X (1..cols) : values[i][j] # 0})
             IN  IF ChooseBackend(rows, cols, nnz, WithDefault(th)) = "dense"
                 THEN Wrap(DenseFrom2D(values), WithDefault(th))
                 ELSE Wrap(FromCOO(rows, cols, TripletsOf2D(values, cols, 0, 0)),
                           WithDefault(th))

\* Matrix.set(i, j, value) calling repack() after the write
MatrixSetRepacking(F, i, j, value) ==
    LET impl == Set(F.impl, i, j, value)
        nnz == IF IsCSR(impl) THEN Len(impl.values) ELSE DenseNonZero(impl)
        backend == ChooseBackend(impl.rows, impl.cols, nnz, F.threshold)
    IN  IF IsError(impl) THEN impl
        ELSE IF backend = "csr" /\ ~IsCSR(impl)
        THEN [F EXCEPT !.impl = CSRFromDense(impl), !.ref = F.ref + 1]
        ELSE IF backend = "dense" /\ ~IsDense(impl)
        THEN [F EXCEPT !.impl = CSRToDense(impl), !.ref = F.ref + 1]
        ELSE [F EXCEPT !.impl = impl]

\* Matrix.set(i, j, value): the facade after the call, or the exception
MatrixSet(F, i, j, value) ==
    LET impl == Set(F.impl, i, j, value)
    IN  IF IsError(impl) THEN impl ELSE [F EXCEPT !.impl = impl]

\* the nnz of repack counting the non-zero cells whatever the representation
RepackNnzCells(impl) == DenseNonZero(ToDense(impl))

\* the nnz of repack: values.length for CSR, the non-zero cells of the buffer for dense
RepackNnz(impl) == IF IsCSR(impl) THEN Len(impl.values) ELSE DenseNonZero(impl)

\* MatrixRepack converting every dense representation to CSR, whatever the decision
MatrixRepackPreferCSR(F) ==
    LET backend == ChooseBackend(F.impl.rows, F.impl.cols, RepackNnz(F.impl), F.threshold)
    IN  IF ~IsCSR(F.impl)
        THEN [F EXCEPT !.impl = CSRFromDense(ToDense(F.impl)), !.ref = F.ref + 1]
        ELSE IF backend = "dense"
        THEN [F EXCEPT !.impl = ToDense(F.impl), !.ref = F.ref + 1]
        ELSE F

\* Matrix.repack(): the facade after the call
MatrixRepack(F) ==
    LET backend == ChooseBackend(F.impl.rows, F.impl.cols, RepackNnz(F.impl), F.threshold)
    IN  IF backend = "csr" /\ ~IsCSR(F.impl)
        THEN [F EXCEPT !.impl = CSRFromDense(ToDense(F.impl)), !.ref = F.ref + 1]
        ELSE IF backend = "dense" /\ ~IsDense(F.impl)
        THEN [F EXCEPT !.impl = ToDense(F.impl), !.ref = F.ref + 1]
        ELSE F

\* Matrix.add(B) (sign = 1) and Matrix.sub(B) (sign = -1)
MatrixCombine(F, X, sign) == Wrap(Combine(F.impl, Unwrap(X), sign), F.threshold)

\* Matrix.mul(B) with B a number
MatrixScale(F, s) == Wrap(Scale(F.impl, s), F.threshold)

\* MatrixMul handing a facade operand to the representation as it is
MatrixMulKeepingFacade(F, X) == Wrap(Mul(F.impl, X), F.threshold)

\* Matrix.mul(B) with B a matrix
MatrixMul(F, X) == Wrap(Mul(F.impl, Unwrap(X)), F.threshold)

MatrixTranspose(F) == Wrap(Transpose(F.impl), F.threshold)

MatrixMatvec(F, x) == Matvec(F.impl, x)

MatrixToDense(F) == ToDense(F.impl)

\* Matrix.get(i, j) for in-bounds (i, j)
MatrixGet(F, i, j) == Get(F.impl, i, j)

-----------------------------------------------------------------------------
(* Inputs *)

Dims == 0..MaxDim

\* the cells of a rows x cols matrix, numbered row-major
Cells(rows, cols) == 0..(rows * cols - 1)

\* the COO list of the cells S with values f, from the last cell down to the first,
\* so that the list is not sorted when it has two entries or more
RECURSIVE ListDown(_, _, _)
ListDown(S, f, cols) ==
    IF S = {} THEN <<>>
    ELSE LET c == CHOOSE x \in S : \A y \in S : y <= x
         IN  <<Entry(c \div cols, c % cols, f[c])>> \o ListDown(S \ {c}, f, cols)

\* whether no two entries of the list share a position
DistinctPositions(entries) ==
    \A x, y \in 1..Len(entries) :
        (entries[x].i = entries[y].i /\ entries[x].j = entries[y].j) => x = y

\* a caller's list before and after a call
Given(entries) == [given |-> entries, now |-> FromCOOList(entries)]

NoList == [given |-> <<>>, now |-> <<>>]

-----------------------------------------------------------------------------
(* Multiplication runs: A and B are built by fromCOO, then A.mul(B) is called *)

InitMul ==
    \E m \in Dims, k \in Dims, n \in Dims :
        /\ k * (m + n) <= MaxCells
        /\ \E SA \in SUBSET Cells(m, k), SB \in SUBSET Cells(k, n) :
            /\ Cardinality(SA) + Cardinality(SB) <= MaxNnz
            /\ \E fA \in [SA -> ValsZ], fB \in [SB -> ValsZ] :
                /\ ea = Given(ListDown(SA, fA, k))
                /\ eb = Given(ListDown(SB, fB, n))
                /\ A = FromCOO(m, k, ListDown(SA, fA, k))
                /\ B = FromCOO(k, n, ListDown(SB, fB, n))
        /\ C = NoMatrix
        /\ op = Op("fromCOO", <<>>)
        /\ M = NoMatrix
        /\ Mprev = NoMatrix
        /\ steps = 0
        /\ buf = NoBuffers

\* C = A.mul(B), both CSR
MulCSR ==
    /\ op.name = "fromCOO"
    /\ IsCSR(A) /\ IsCSR(B)
    /\ C' = CSRMulCSR(A, B)
    /\ op' = Op("mul", <<>>)
    /\ UNCHANGED <<A, B, ea, eb, M, Mprev, steps, buf>>

NextMul == MulCSR

SpecMul == InitMul /\ [][NextMul]_vars

-----------------------------------------------------------------------------
(* Operation runs: A is built by fromCOO from any in-bounds list, then operations   *)
(* are applied in any order, each CSR result becoming the next receiver; the       *)
(* operand of add, sub and mul is an input of the step                             *)

\* the triplets of a rows x cols matrix with values in V
Triplets(rows, cols, V) ==
    {Entry(i, j, v) : i \in 0..(rows - 1), j \in 0..(cols - 1), v \in V}

\* the lists of at most n elements of S
ListsUpTo(S, n) == UNION {[1..len -> S] : len \in 0..n}

\* the lists of at most n triplets at distinct positions
DistinctLists(rows, cols, V, n) ==
    {l \in ListsUpTo(Triplets(rows, cols, V), n) : DistinctPositions(l)}

InitOps ==
    /\ \E m \in Dims, n \in Dims :
         \E l \in ListsUpTo(Triplets(m, n, ValsZ), MaxEntries) :
            /\ ea = Given(l)
            /\ A = FromCOO(m, n, l)
    /\ eb = NoList
    /\ B = NoMatrix
    /\ C = NoMatrix
    /\ op = Op("fromCOO", <<>>)
    /\ M = NoMatrix
    /\ Mprev = NoMatrix
    /\ steps = 0
    /\ buf = NoBuffers

\* the receiver takes the result of the operation when it is a CSR matrix
Becomes(name, result) ==
    /\ IsCSR(result)
    /\ A' = result
    /\ C' = result
    /\ op' = Op(name, <<>>)
    /\ steps' = steps + 1
    /\ UNCHANGED <<B, ea, eb, M, Mprev, buf>>

\* D = A.toDense()
OpToDense ==
    /\ IsCSR(A)
    /\ C' = CSRToDense(A)
    /\ op' = Op("toDense", <<>>)
    /\ UNCHANGED <<A, B, ea, eb, M, Mprev, steps, buf>>

\* A.set(i, j, v)
OpSet ==
    /\ steps < MaxSteps
    /\ IsCSR(A)
    /\ \E i \in 0..(A.rows - 1), j \in 0..(A.cols - 1), v \in ValsZ :
          Becomes("set", CSRSet(A, i, j, v))

\* A.add(B) and A.sub(B) with B a CSR matrix of the same shape
OpCombine ==
    /\ steps < MaxSteps
    /\ IsCSR(A)
    /\ \E l \in DistinctLists(A.rows, A.cols, Vals, MaxOperand), sign \in {1, -1} :
          Becomes(IF sign = 1 THEN "add" ELSE "sub",
                  Combine(A, FromCOO(A.rows, A.cols, l), sign))

\* A.mul(s) with s a number
OpScale ==
    /\ steps < MaxSteps
    /\ IsCSR(A)
    /\ \E s \in Scalars : Becomes("scale", Scale(A, s))

\* A.mul(B) with B a CSR matrix of A.cols rows
OpMul ==
    /\ steps < MaxSteps
    /\ IsCSR(A)
    /\ \E n \in Dims :
         \E l \in DistinctLists(A.cols, n, Vals, MaxOperand) :
            Becomes("mul", Mul(A, FromCOO(A.cols, n, l)))

\* A.transpose()
OpTranspose ==
    /\ steps < MaxSteps
    /\ IsCSR(A)
    /\ Becomes("transpose", Transpose(A))

\* CSRMatrix.fromDense(A.toDense())
OpFromDense ==
    /\ steps < MaxSteps
    /\ IsCSR(A)
    /\ Becomes("fromDense", CSRFromDense(CSRToDense(A)))

NextOps ==
    \/ OpToDense
    \/ OpSet
    \/ OpCombine
    \/ OpScale
    \/ OpMul
    \/ OpTranspose
    \/ OpFromDense

SpecOps == InitOps /\ [][NextOps]_vars

-----------------------------------------------------------------------------
(* Facade runs: a facade is built by one of the construction entry points, then     *)
(* set, repack and the delegated operations are called on it                       *)

\* the thresholds handed to the entry points; Undefined leaves the parameter out
Thresholds == {Undefined, <<0, 1>>, <<1, 2>>, <<1, 1>>}

\* the 2-D arrays of at most MaxDim rows of at most MaxDim cells each, ragged included
Arrays2D == ListsUpTo(ListsUpTo({0, 1}, MaxDim), MaxDim)

\* the value a call returned
Number(x) == [kind |-> "number", value |-> x]

Void == [kind |-> "void"]

InitFacade ==
    /\ M = NoMatrix
    /\ Mprev = NoMatrix
    /\ C = NoMatrix
    /\ op = Op("none", <<>>)
    /\ A = NoMatrix
    /\ B = NoMatrix
    /\ ea = NoList
    /\ eb = NoList
    /\ steps = 0
    /\ buf = NoBuffers

\* a construction entry point, called once at the start of a run, returned (or threw)
\* result
Built(name, args, result) ==
    /\ C' = result
    /\ M' = IF IsFacade(result) THEN result ELSE M
    /\ op' = Op(name, args)
    /\ UNCHANGED <<A, B, ea, eb, Mprev, steps, buf>>

\* Matrix.chooseBackend(rows, cols, nnz, threshold)
CallChooseBackend ==
    /\ op.name = "none"
    /\ \E rows \in 0..MaxChoose, cols \in 0..MaxChoose, th \in Thresholds :
           \E nnz \in 0..(rows * cols) :
               Built("chooseBackend", <<rows, cols, nnz, th>>,
                     [kind |-> "backend", value |-> ChooseBackend(rows, cols, nnz, th)])

\* Matrix.zeros(rows, cols, threshold)
CallZeros ==
    /\ op.name = "none"
    /\ \E rows \in Dims, cols \in Dims, th \in Thresholds :
           Built("zeros", <<rows, cols, th>>, MatrixZeros(rows, cols, th))

\* Matrix.identity(n, threshold)
CallIdentity ==
    /\ op.name = "none"
    /\ \E n \in Dims, th \in Thresholds :
           Built("identity", <<n, th>>, MatrixIdentity(n, th))

\* Matrix.from2D(values, threshold)
CallFrom2D ==
    /\ op.name = "none"
    /\ \E values \in Arrays2D, th \in Thresholds :
           Built("from2D", <<values, th>>, MatrixFrom2D(values, th))

\* Matrix.fromCOO(rows, cols, entries, threshold)
CallFromCOO ==
    /\ op.name = "none"
    /\ \E rows \in Dims, cols \in Dims, th \in Thresholds :
           \E l \in ListsUpTo(Triplets(rows, cols, ValsZ), MaxEntries) :
               Built("fromCOO", <<rows, cols, l, th>>, MatrixFromCOO(rows, cols, l, th))

NextBuild ==
    \/ CallChooseBackend
    \/ CallZeros
    \/ CallIdentity
    \/ CallFrom2D
    \/ CallFromCOO

SpecBuild == InitFacade /\ [][NextBuild]_vars

\* an operation of the facade returned result and left the facade as after
Called(name, after, result) ==
    /\ Mprev' = M
    /\ M' = after
    /\ C' = result
    /\ op' = Op(name, <<>>)
    /\ UNCHANGED <<A, B, ea, eb, buf>>

\* M.set(i, j, v)
FacadeSet ==
    /\ IsFacade(M)
    /\ steps < MaxSets
    /\ steps' = steps + 1
    /\ \E i \in 0..(M.impl.rows - 1), j \in 0..(M.impl.cols - 1), v \in ValsZ :
          Called("set", MatrixSet(M, i, j, v), Void)

\* M.repack()
FacadeRepack ==
    /\ IsFacade(M)
    /\ Called("repack", MatrixRepack(M), Void)
    /\ UNCHANGED steps

\* M.get(i, j)
FacadeGet ==
    /\ IsFacade(M)
    /\ \E i \in 0..(M.impl.rows - 1), j \in 0..(M.impl.cols - 1) :
          Called("get", M, Number(MatrixGet(M, i, j)))
    /\ UNCHANGED steps

\* the operands of shape rows x cols handed to add, sub and mul: the matrix with
\* ones on its diagonal as a CSRMatrix, as a DenseMatrix and as a facade
Operands(rows, cols) ==
    LET n == IF rows < cols THEN rows ELSE cols
        X == FromCOO(rows, cols, [k \in 1..n |-> Entry(n - k, n - k, 1)])
    IN  {X, CSRToDense(X), Facade(X, DefaultThreshold, 0)}

\* M.add(X) and M.sub(X)
FacadeCombine ==
    /\ IsFacade(M)
    /\ \E X \in Operands(M.impl.rows, M.impl.cols), sign \in {1, -1} :
          Called(IF sign = 1 THEN "add" ELSE "sub", M, MatrixCombine(M, X, sign))
    /\ UNCHANGED steps

\* M.mul(s) with s a number
FacadeScale ==
    /\ IsFacade(M)
    /\ \E s \in Scalars : Called("scale", M, MatrixScale(M, s))
    /\ UNCHANGED steps

\* M.mul(X) with X a matrix
FacadeMul ==
    /\ IsFacade(M)
    /\ \E X \in Operands(M.impl.cols, M.impl.rows) : Called("mul", M, MatrixMul(M, X))
    /\ UNCHANGED steps

\* M.transpose()
FacadeTranspose ==
    /\ IsFacade(M)
    /\ Called("transpose", M, MatrixTranspose(M))
    /\ UNCHANGED steps

\* M.matvec(x)
FacadeMatvec ==
    /\ IsFacade(M)
    /\ \E x \in [1..M.impl.cols -> {1}] : Called("matvec", M, MatrixMatvec(M, x))
    /\ UNCHANGED steps

\* M.toDense()
FacadeToDense ==
    /\ IsFacade(M)
    /\ Called("toDense", M, MatrixToDense(M))
    /\ UNCHANGED steps

NextFacade ==
    \/ CallZeros
    \/ CallIdentity
    \/ CallFrom2D
    \/ CallFromCOO
    \/ FacadeSet
    \/ FacadeRepack
    \/ FacadeGet
    \/ FacadeCombine
    \/ FacadeScale
    \/ FacadeMul
    \/ FacadeTranspose
    \/ FacadeMatvec
    \/ FacadeToDense

SpecFacade == InitFacade /\ [][NextFacade]_vars

-----------------------------------------------------------------------------
(* Call runs: a receiver A of any representation is given, one operation is called  *)
(* on it with an operand of any representation and shape, C is what the call       *)
(* returned and B the operand; toDense may follow fromDense and a second transpose *)
(* may follow the first, B then being the intermediate matrix                      *)

\* every DenseMatrix of shape rows x cols with cells in ValsZ
DenseMatrices(rows, cols) ==
    {NewDenseData(rows, cols, d) : d \in [1..(rows * cols) -> ValsZ]}

\* every CSRMatrix that fromCOO returns on an in-bounds list of at most MaxEntries entries
CSRMatrices(rows, cols) ==
    {FromCOO(rows, cols, l) : l \in ListsUpTo(Triplets(rows, cols, ValsZ), MaxEntries)}

\* Matrix.wrap(X) for every X of S
Wrapped(S) == {Wrap(X, DefaultThreshold) : X \in S}

\* the receivers: a DenseMatrix, a CSRMatrix or a facade over either
Receivers ==
    UNION {LET S == DenseMatrices(m, n) \cup CSRMatrices(m, n)
           IN  S \cup Wrapped(S) : m \in Dims, n \in Dims}

\* the all-zero matrices of shape rows x cols: an empty CSRMatrix and a zero DenseMatrix
ZeroMatrices(rows, cols) == {FromCOO(rows, cols, <<>>), NewDense(rows, cols)}

\* the operands handed to a call expecting shape rows x cols: of that shape the zero
\* matrices and the matrix with ones on its diagonal, of every other shape the zero
\* matrices, each as a DenseMatrix, a CSRMatrix and a facade over either
Arguments(rows, cols) ==
    LET S == UNION {ZeroMatrices(m, n) : m \in Dims, n \in Dims}
             \cup {Y \in Operands(rows, cols) : ~IsFacade(Y)}
    IN  S \cup Wrapped(S)

\* the vectors handed to matvec: ones, of every length up to MaxDim
Vectors == {Fill(n, 1) : n \in Dims}

\* the call X.add(Y) (sign = 1) or X.sub(Y) (sign = -1) on a receiver of any class
InvokeCombine(X, Y, sign) ==
    IF IsFacade(X) THEN MatrixCombine(X, Y, sign) ELSE Combine(X, Y, sign)

\* the call X.mul(Y) with Y a matrix
InvokeMul(X, Y) == IF IsFacade(X) THEN MatrixMul(X, Y) ELSE Mul(X, Y)

\* the call X.mul(s) with s a number
InvokeScale(X, s) == IF IsFacade(X) THEN MatrixScale(X, s) ELSE Scale(X, s)

\* the call X.transpose()
InvokeTranspose(X) == IF IsFacade(X) THEN MatrixTranspose(X) ELSE Transpose(X)

\* the call X.matvec(x)
InvokeMatvec(X, x) == IF IsFacade(X) THEN MatrixMatvec(X, x) ELSE Matvec(X, x)

InitCall ==
    /\ A \in Receivers
    /\ B = NoMatrix
    /\ C = NoMatrix
    /\ op = Op("given", <<>>)
    /\ ea = NoList
    /\ eb = NoList
    /\ M = NoMatrix
    /\ Mprev = NoMatrix
    /\ steps = 0
    /\ buf = NoBuffers

\* the call name(operand) on A returned (or threw) result; none of these methods
\* assigns a field or a buffer cell of the receiver or of the operand
Returned(name, operand, result) ==
    /\ C' = result
    /\ B' = operand
    /\ op' = Op(name, <<A, operand>>)
    /\ UNCHANGED <<A, ea, eb, M, Mprev, steps, buf>>

\* A.add(Y) and A.sub(Y); Y may be A itself
CallCombine ==
    /\ op.name = "given"
    /\ \E Y \in Arguments(Rows(A), Cols(A)) \cup {A}, sign \in {1, -1} :
          Returned(IF sign = 1 THEN "add" ELSE "sub", Y, InvokeCombine(A, Y, sign))

\* A.mul(Y) with Y a matrix
CallMul ==
    /\ op.name = "given"
    /\ \E n \in Dims :
         \E Y \in Arguments(Cols(A), n) : Returned("mul", Y, InvokeMul(A, Y))

\* A.mul(s) with s a number
CallScale ==
    /\ op.name = "given"
    /\ \E s \in Scalars : Returned("scale", Number(s), InvokeScale(A, s))

\* A.transpose()
CallTranspose ==
    /\ op.name = "given"
    /\ Returned("transpose", NoMatrix, InvokeTranspose(A))

\* A.transpose().transpose(): the second call, on the result of the first
CallTransposeAgain ==
    /\ op.name = "transpose"
    /\ C' = InvokeTranspose(C)
    /\ B' = C
    /\ op' = Op("transpose.transpose", <<A, NoMatrix>>)
    /\ UNCHANGED <<A, ea, eb, M, Mprev, steps, buf>>

\* A.matvec(x)
CallMatvec ==
    /\ op.name = "given"
    /\ \E x \in Vectors : Returned("matvec", [kind |-> "vector", data |-> x], InvokeMatvec(A, x))

\* CSRMatrix.fromDense(A) for a DenseMatrix A
CallFromDense ==
    /\ op.name = "given"
    /\ IsDense(A)
    /\ Returned("fromDense", NoMatrix, CSRFromDense(A))

\* CSRMatrix.fromDense(A).toDense(): the second call, on the result of the first
CallToDenseAfter ==
    /\ op.name = "fromDense"
    /\ C' = ToDense(C)
    /\ B' = C
    /\ op' = Op("fromDense.toDense", <<A, NoMatrix>>)
    /\ UNCHANGED <<A, ea, eb, M, Mprev, steps, buf>>

NextCall ==
    \/ CallCombine
    \/ CallMul
    \/ CallScale
    \/ CallTranspose
    \/ CallTransposeAgain
    \/ CallMatvec
    \/ CallFromDense
    \/ CallToDenseAfter

SpecCall == InitCall /\ [][NextCall]_vars

-----------------------------------------------------------------------------
(* Index runs: get and set are called on a receiver of any class with indices in    *)
(* and out of bounds, and CSRMatrix.fromCOO is called on lists with entries in and *)
(* out of bounds                                                                   *)

\* whether get(i, j) and set(i, j, v) on X throw: the bounds test of the representation
IndexThrows(X, i, j) ==
    LET R == Unwrap(X)
    IN  IF IsCSR(R) THEN i < 0 \/ i >= R.rows \/ j < 0 \/ j >= R.cols
        ELSE ~DenseInBounds(R, i, j)

\* the call X.get(i, j): the number returned, or the exception
InvokeGet(X, i, j) ==
    IF IndexThrows(X, i, j) THEN Get(Unwrap(X), i, j) ELSE Number(Get(Unwrap(X), i, j))

\* the call X.set(i, j, v): the receiver after the call, or the exception
InvokeSet(X, i, j, v) == IF IsFacade(X) THEN MatrixSet(X, i, j, v) ELSE Set(X, i, j, v)

\* the lists of at most MaxEntries triplets with indices from one below the first row
\* and column to one past the last
ListsAround(rows, cols) ==
    ListsUpTo({Entry(i, j, 1) : i \in (-1)..rows, j \in (-1)..cols}, MaxEntries)

InitIndex ==
    /\ A \in Receivers \cup {NoMatrix}
    /\ B = NoMatrix
    /\ C = NoMatrix
    /\ op = Op("given", <<>>)
    /\ ea = NoList
    /\ eb = NoList
    /\ M = NoMatrix
    /\ Mprev = NoMatrix
    /\ steps = 0
    /\ buf = NoBuffers

\* A.get(i, j)
IndexGet ==
    /\ op.name = "given"
    /\ A # NoMatrix
    /\ \E i \in (-1)..Rows(A), j \in (-1)..Cols(A) :
          /\ C' = InvokeGet(A, i, j)
          /\ op' = Op("get", <<A, i, j>>)
    /\ UNCHANGED <<A, B, ea, eb, M, Mprev, steps, buf>>

\* A.set(i, j, v): the bounds test precedes every write, so a call that throws leaves
\* the receiver as it was
IndexSet ==
    /\ op.name = "given"
    /\ A # NoMatrix
    /\ \E i \in (-1)..Rows(A), j \in (-1)..Cols(A), v \in ValsZ :
          LET after == InvokeSet(A, i, j, v)
          IN  /\ A' = IF IsError(after) THEN A ELSE after
              /\ C' = IF IsError(after) THEN after ELSE Void
              /\ op' = Op("set", <<A, i, j, v>>)
    /\ UNCHANGED <<B, ea, eb, M, Mprev, steps, buf>>

\* B = CSRMatrix.fromCOO(rows, cols, entries); B stays NoMatrix when the call throws
IndexFromCOO ==
    /\ op.name = "given"
    /\ A = NoMatrix
    /\ \E rows \in Dims, cols \in Dims :
         \E l \in ListsAround(rows, cols) :
            LET result == FromCOO(rows, cols, l)
            IN  /\ C' = result
                /\ B' = IF IsError(result) THEN B ELSE result
                /\ ea' = Given(l)
                /\ op' = Op("fromCOO", <<rows, cols, l>>)
    /\ UNCHANGED <<A, eb, M, Mprev, steps, buf>>

NextIndex ==
    \/ IndexGet
    \/ IndexSet
    \/ IndexFromCOO

SpecIndex == InitIndex /\ [][NextIndex]_vars

-----------------------------------------------------------------------------
(* Constructor runs: new CSRMatrix(rows, cols, values, colIndex, rowPtr) is called  *)
(* on raw buffers                                                                  *)

\* the rowPtr buffers handed to the constructor: one element too few, rows + 1
\* elements, or one too many, each element up to MaxEntries
RowPtrBuffers(rows) ==
    UNION {[1..len -> 0..MaxEntries] : len \in {rows, rows + 1, rows + 2}}

\* the colIndex buffers: up to MaxEntries columns of a matrix of cols columns, in any order
ColIndexBuffers(cols) == ListsUpTo(0..(cols - 1), MaxEntries)

\* the values buffers: up to MaxEntries ones
ValuesBuffers == {Fill(n, 1) : n \in 0..MaxEntries}

InitNew ==
    /\ A = NoMatrix
    /\ B = NoMatrix
    /\ C = NoMatrix
    /\ op = Op("given", <<>>)
    /\ ea = NoList
    /\ eb = NoList
    /\ M = NoMatrix
    /\ Mprev = NoMatrix
    /\ steps = 0
    /\ buf = NoBuffers

\* C = new CSRMatrix(rows, cols, values, colIndex, rowPtr)
CallNew ==
    /\ op.name = "given"
    /\ \E rows \in Dims, cols \in Dims, values \in ValuesBuffers :
         \E colIndex \in ColIndexBuffers(cols), rowPtr \in RowPtrBuffers(rows) :
            /\ C' = NewCSR(rows, cols, values, colIndex, rowPtr)
            /\ op' = Op("new", <<rows, cols, values, colIndex, rowPtr>>)
    /\ UNCHANGED <<A, B, ea, eb, M, Mprev, steps, buf>>

NextNew == CallNew

SpecNew == InitNew /\ [][NextNew]_vars

-----------------------------------------------------------------------------
(* Alias runs: an operation is called on a DenseMatrix or a CSRMatrix A, with an    *)
(* operand B that is another object, and returns C; then set is called on A, B or  *)
(* C.  buf gives the addresses of the buffers each object holds (data for a dense  *)
(* matrix; values, colIndex and rowPtr for a CSR one), so that a write through one *)
(* object is seen by every object that holds the buffer written                    *)

\* the number of buffers a representation holds
BufferCount(X) == IF IsDense(X) THEN 1 ELSE IF IsCSR(X) THEN 3 ELSE 0

\* new typed arrays for X: the addresses after next
NewBuffers(X, next) == [k \in 1..BufferCount(X) |-> next + k]

\* a.slice() returning the buffer a itself instead of a copy
SliceOfSame(a, fresh) == a

\* a.slice(): a copy of the buffer at address a, placed at the address fresh
SliceOf(a, fresh) == fresh

\* the buffers of the result of the call name on the receiver X holding the buffers
\* held: toDense of a DenseMatrix passes this.data.slice() to the constructor, the
\* scalar mul of a CSRMatrix passes a new array, colIndex.slice() and rowPtr.slice(),
\* every other operation fills arrays it allocates
ResultBuffers(name, X, held, result, next) ==
    IF name = "toDense" /\ IsDense(X) THEN <<SliceOf(held[1], next + 1)>>
    ELSE IF name = "scale" /\ IsCSR(X)
    THEN <<next + 1, SliceOf(held[2], next + 2), SliceOf(held[3], next + 3)>>
    ELSE NewBuffers(result, next)

\* the receivers and operands of shape rows x cols: the matrices of at most MaxOperand
\* entries, as a CSRMatrix and as a DenseMatrix
Plain(rows, cols) ==
    UNION {{FromCOO(rows, cols, l), CSRToDense(FromCOO(rows, cols, l))} :
              l \in DistinctLists(rows, cols, {1}, MaxOperand)}

InitAlias ==
    /\ \E m \in Dims, n \in Dims :
         \E X \in Plain(m, n) :
            /\ A = X
            /\ buf = [A |-> NewBuffers(X, 0), B |-> <<>>, C |-> <<>>,
                      next |-> BufferCount(X)]
    /\ B = NoMatrix
    /\ C = NoMatrix
    /\ op = Op("given", <<>>)
    /\ ea = NoList
    /\ eb = NoList
    /\ M = NoMatrix
    /\ Mprev = NoMatrix
    /\ steps = 0

\* the call name on A with the operand returned result: the operand, when there is
\* one, is an object of its own with buffers of its own
Gave(name, operand, result) ==
    LET next == buf.next + BufferCount(operand)
    IN  /\ ~IsError(result)
        /\ B' = operand
        /\ C' = result
        /\ buf' = [A |-> buf.A,
                   B |-> NewBuffers(operand, buf.next),
                   C |-> ResultBuffers(name, A, buf.A, result, next),
                   next |-> next + BufferCount(result)]
        /\ op' = Op(name, <<A, operand, result, {}>>)
        /\ UNCHANGED <<A, ea, eb, M, Mprev, steps>>

\* A.toDense()
AliasToDense ==
    /\ op.name = "given"
    /\ Gave("toDense", NoMatrix, ToDense(A))

\* A.add(Y) and A.sub(Y)
AliasCombine ==
    /\ op.name = "given"
    /\ \E Y \in Plain(A.rows, A.cols), sign \in {1, -1} :
          Gave(IF sign = 1 THEN "add" ELSE "sub", Y, Combine(A, Y, sign))

\* A.mul(s) with s a number
AliasScale ==
    /\ op.name = "given"
    /\ \E s \in Scalars : Gave("scale", NoMatrix, Scale(A, s))

\* A.mul(Y) with Y a matrix
AliasMul ==
    /\ op.name = "given"
    /\ \E n \in Dims :
         \E Y \in Plain(A.cols, n) : Gave("mul", Y, Mul(A, Y))

\* A.transpose()
AliasTranspose ==
    /\ op.name = "given"
    /\ Gave("transpose", NoMatrix, Transpose(A))

\* the object X holding the buffers held, after set(i, j, v) was called on the object
\* Y holding the buffers written: a DenseMatrix writes the cell in its data buffer, and
\* every DenseMatrix holding that buffer reads the new value
AfterDenseSet(X, held, written, i, j, v) ==
    IF IsDense(X) /\ held = written THEN DenseSet(X, i, j, v) ELSE X

\* X.set(i, j, v) on the object named who: a DenseMatrix writes into its buffer; a
\* CSRMatrix takes the three buffers of the matrix it rebuilt, new ones
AliasSet ==
    /\ op.name # "given"
    /\ steps < MaxWrites
    /\ steps' = steps + 1
    /\ \E who \in {"A", "B", "C"} :
         LET X == IF who = "A" THEN A ELSE IF who = "B" THEN B ELSE C
         IN  /\ X # NoMatrix
             /\ \E i \in 0..(X.rows - 1), j \in 0..(X.cols - 1), v \in ValsZ :
                   IF IsDense(X)
                   THEN /\ A' = AfterDenseSet(A, buf.A, buf[who], i, j, v)
                        /\ B' = AfterDenseSet(B, buf.B, buf[who], i, j, v)
                        /\ C' = AfterDenseSet(C, buf.C, buf[who], i, j, v)
                        /\ buf' = buf
                   ELSE /\ A' = IF who = "A" THEN CSRSet(A, i, j, v) ELSE A
                        /\ B' = IF who = "B" THEN CSRSet(B, i, j, v) ELSE B
                        /\ C' = IF who = "C" THEN CSRSet(C, i, j, v) ELSE C
                        /\ buf' = [buf EXCEPT ![who] = NewBuffers(X, buf.next),
                                              !.next = buf.next + 3]
             /\ op' = Op("set", <<op.args[1], op.args[2], op.args[3],
                                  op.args[4] \cup {who}, IF op.name = "set" THEN op.args[5]
                                                         ELSE op.name>>)
    /\ UNCHANGED <<ea, eb, M, Mprev>>

NextAlias ==
    \/ AliasToDense
    \/ AliasCombine
    \/ AliasScale
    \/ AliasMul
    \/ AliasTranspose
    \/ AliasSet

SpecAlias == InitAlias /\ [][NextAlias]_vars

-----------------------------------------------------------------------------
(* Twin runs: A is a CSRMatrix built by fromCOO from non-zero entries at distinct   *)
(* positions, B a DenseMatrix with the same content; each step calls set with the   *)
(* same in-bounds arguments on both                                                 *)

InitTwin ==
    /\ \E m \in Dims, n \in Dims :
         \E l \in DistinctLists(m, n, Vals, MaxEntries) :
            /\ ea = Given(l)
            /\ A = FromCOO(m, n, l)
            /\ B = DenseSetAll(NewDense(m, n), l, 1)
    /\ eb = NoList
    /\ C = NoMatrix
    /\ op = Op("fromCOO", <<>>)
    /\ M = NoMatrix
    /\ Mprev = NoMatrix
    /\ steps = 0
    /\ buf = NoBuffers

\* A.set(i, j, v) and B.set(i, j, v); C keeps the CSR matrix as it was before the call
TwinSet ==
    /\ steps < MaxPairSets
    /\ \E i \in 0..(A.rows - 1), j \in 0..(A.cols - 1), v \in ValsZ :
        /\ A' = CSRSet(A, i, j, v)
        /\ B' = DenseSet(B, i, j, v)
        /\ C' = A
        /\ op' = Op("set", <<i, j, v>>)
    /\ steps' = steps + 1
    /\ UNCHANGED <<ea, eb, M, Mprev, buf>>

NextTwin == TwinSet

SpecTwin == InitTwin /\ [][NextTwin]_vars

-----------------------------------------------------------------------------
(* Matvec runs: A is a CSRMatrix built by fromCOO from entries at distinct          *)
(* positions, then A.matvec(x) is called with a vector of A.cols components         *)

\* the components of a vector
VecVals == {-1, 0, 2}

InitMatvec ==
    /\ \E m \in Dims, n \in Dims :
         \E l \in DistinctLists(m, n, ValsZ, MaxStored) :
            /\ ea = Given(l)
            /\ A = FromCOO(m, n, l)
    /\ eb = NoList
    /\ B = NoMatrix
    /\ C = NoMatrix
    /\ op = Op("fromCOO", <<>>)
    /\ M = NoMatrix
    /\ Mprev = NoMatrix
    /\ steps = 0
    /\ buf = NoBuffers

\* y = A.matvec(x)
MatvecCSR ==
    /\ op.name = "fromCOO"
    /\ \E x \in [1..A.cols -> VecVals] :
        /\ C' = CSRMatvec(A, x)
        /\ op' = Op("matvec", <<A, x>>)
    /\ UNCHANGED <<A, B, ea, eb, M, Mprev, steps, buf>>

NextMatvec == MatvecCSR

SpecMatvec == InitMatvec /\ [][NextMatvec]_vars

-----------------------------------------------------------------------------
(* Rewrap runs: M is a facade over a DenseMatrix or a CSRMatrix with any threshold, *)
(* then one of add, sub, mul, transpose is called on it; C is the facade returned.  *)
(* buf gives the addresses of the objects: buf.A of the receiver, buf.B of the      *)
(* operand when it is a matrix (the receiver itself may be handed as the operand),  *)
(* buf.C of the object returned                                                     *)

\* the thresholds of the receiver
RewrapThresholds == {<<0, 1>>, <<1, 2>>, DefaultThreshold}

InitRewrap ==
    /\ \E m \in Dims, n \in Dims, th \in RewrapThresholds :
         \E X \in DenseMatrices(m, n) \cup CSRMatrices(m, n) : M = Wrap(X, th)
    /\ Mprev = NoMatrix
    /\ A = NoMatrix
    /\ B = NoMatrix
    /\ C = NoMatrix
    /\ op = Op("given", <<>>)
    /\ ea = NoList
    /\ eb = NoList
    /\ steps = 0
    /\ buf = [A |-> <<1>>, B |-> <<>>, C |-> <<>>, next |-> 1]

\* the addresses a matrix operand may have: the address of the receiver when the
\* operand equals the receiver (the caller handed the receiver itself), or the first
\* free address (another object); a number and an absent operand have none
OperandAddresses(operand) ==
    IF ~(IsFacade(operand) \/ IsCSR(operand) \/ IsDense(operand)) THEN {<<>>}
    ELSE {<<buf.next + 1>>} \cup (IF operand = M THEN {buf.A} ELSE {})

\* the call name(operand) on the facade M returned (or threw) result; the receiver and
\* the operand are left as they were; the facade returned is the object Matrix.wrap
\* made, and nothing is returned when the call threw
Rewrapped(name, operand, result) ==
    /\ C' = result
    /\ B' = operand
    /\ Mprev' = M
    /\ op' = Op(name, <<M, operand>>)
    /\ \E at \in OperandAddresses(operand) :
          LET next == IF at = <<buf.next + 1>> THEN buf.next + 1 ELSE buf.next
          IN  buf' = IF IsError(result)
                     THEN [A |-> buf.A, B |-> at, C |-> <<>>, next |-> next]
                     ELSE [A |-> buf.A, B |-> at,
                           C |-> <<WrapObject(buf.A[1], next + 1)>>, next |-> next + 1]
    /\ UNCHANGED <<M, A, ea, eb, steps>>

\* M.add(Y) and M.sub(Y)
RewrapCombine ==
    /\ op.name = "given"
    /\ \E Y \in Arguments(Rows(M), Cols(M)), sign \in {1, -1} :
          Rewrapped(IF sign = 1 THEN "add" ELSE "sub", Y, MatrixCombine(M, Y, sign))

\* M.mul(Y) with Y a matrix
RewrapMul ==
    /\ op.name = "given"
    /\ \E n \in Dims :
         \E Y \in Arguments(Cols(M), n) : Rewrapped("mul", Y, MatrixMul(M, Y))

\* M.mul(s) with s a number
RewrapScale ==
    /\ op.name = "given"
    /\ \E s \in Scalars : Rewrapped("scale", Number(s), MatrixScale(M, s))

\* M.transpose()
RewrapTranspose ==
    /\ op.name = "given"
    /\ Rewrapped("transpose", NoMatrix, MatrixTranspose(M))

NextRewrap ==
    \/ RewrapCombine
    \/ RewrapMul
    \/ RewrapScale
    \/ RewrapTranspose

SpecRewrap == InitRewrap /\ [][NextRewrap]_vars

-----------------------------------------------------------------------------
(* Loop runs: A and B are built by fromCOO as in the multiplication runs, then       *)
(* A.add(B), A.sub(B) (equal shapes) or A.mul(B) is executed one loop iteration at   *)
(* a time; op.name is the position in the code, op.args the local variables, and C  *)
(* takes the matrix returned                                                        *)

\* the locals of the call at position pc
Frame(pc, locals) == [name |-> pc, args |-> locals]

\* entry of add (sign = 1) and sub (sign = -1) after the dimension test
MergeBegin ==
    /\ op.name = "fromCOO"
    /\ A.rows = B.rows /\ A.cols = B.cols
    /\ \E sign \in {1, -1} :
          op' = Frame("merge.for", [sign |-> sign, i |-> 0, a |-> 0, b |-> 0, n |-> 0,
                                  entries |-> <<>>])
    /\ UNCHANGED <<A, B, C, ea, eb, M, Mprev, steps, buf>>

\* for (let i = 0; i < this.rows; i++) { let a = ...; let b = ...
MergeFor ==
    /\ op.name = "merge.for"
    /\ LET f == op.args
       IN  IF f.i < A.rows
           THEN op' = Frame("merge.while", [f EXCEPT !.a = At(A.rowPtr, f.i),
                                                     !.b = At(B.rowPtr, f.i),
                                                     !.n = 0])
           ELSE op' = Frame("merge.return", f)
    /\ UNCHANGED <<A, B, C, ea, eb, M, Mprev, steps, buf>>

\* return CSRMatrix.fromCOO(this.rows, this.cols, entries)
MergeReturn ==
    /\ op.name = "merge.return"
    /\ op' = Frame("merged", op.args)
    /\ C' = FromCOO(A.rows, A.cols, op.args.entries)
    /\ UNCHANGED <<A, B, ea, eb, M, Mprev, steps, buf>>

\* the body of the while loop leaving the cursors where they are when the values of a
\* shared column cancel
MergeBodyStalling(f) ==
    LET aEnd == At(A.rowPtr, f.i + 1)
        bEnd == At(B.rowPtr, f.i + 1)
    IN  IF f.b >= bEnd \/ (f.a < aEnd /\ At(A.colIndex, f.a) < At(B.colIndex, f.b))
        THEN [f EXCEPT !.entries = Append(f.entries,
                           Entry(f.i, At(A.colIndex, f.a), At(A.values, f.a))),
                       !.a = f.a + 1, !.n = f.n + 1]
        ELSE IF f.a >= aEnd \/ (f.b < bEnd /\ At(B.colIndex, f.b) < At(A.colIndex, f.a))
        THEN [f EXCEPT !.entries = Append(f.entries,
                           Entry(f.i, At(B.colIndex, f.b), f.sign * At(B.values, f.b))),
                       !.b = f.b + 1, !.n = f.n + 1]
        ELSE LET v == At(A.values, f.a) + f.sign * At(B.values, f.b)
             IN  IF v # 0
                 THEN [f EXCEPT !.entries = Append(f.entries,
                                                   Entry(f.i, At(A.colIndex, f.a), v)),
                                !.a = f.a + 1, !.b = f.b + 1, !.n = f.n + 1]
                 ELSE f

\* the body of the while loop of add and sub: the locals after one iteration
MergeBody(f) ==
    LET aEnd == At(A.rowPtr, f.i + 1)
        bEnd == At(B.rowPtr, f.i + 1)
    IN  IF f.b >= bEnd \/ (f.a < aEnd /\ At(A.colIndex, f.a) < At(B.colIndex, f.b))
        THEN [f EXCEPT !.entries = Append(f.entries,
                           Entry(f.i, At(A.colIndex, f.a), At(A.values, f.a))),
                       !.a = f.a + 1, !.n = f.n + 1]
        ELSE IF f.a >= aEnd \/ (f.b < bEnd /\ At(B.colIndex, f.b) < At(A.colIndex, f.a))
        THEN [f EXCEPT !.entries = Append(f.entries,
                           Entry(f.i, At(B.colIndex, f.b), f.sign * At(B.values, f.b))),
                       !.b = f.b + 1, !.n = f.n + 1]
        ELSE LET v == At(A.values, f.a) + f.sign * At(B.values, f.b)
             IN  [f EXCEPT !.entries = IF v # 0
                               THEN Append(f.entries, Entry(f.i, At(A.colIndex, f.a), v))
                               ELSE f.entries,
                           !.a = f.a + 1, !.b = f.b + 1, !.n = f.n + 1]

\* while (a < aEnd || b < bEnd) { ... }: one iteration, or the exit to the next row
MergeWhile ==
    /\ op.name = "merge.while"
    /\ LET f == op.args
       IN  IF f.a < At(A.rowPtr, f.i + 1) \/ f.b < At(B.rowPtr, f.i + 1)
           THEN op' = Frame("merge.while", MergeBody(f))
           ELSE op' = Frame("merge.for", [f EXCEPT !.i = f.i + 1])
    /\ UNCHANGED <<A, B, C, ea, eb, M, Mprev, steps, buf>>

\* the pairs (ak, bk) of a stored entry of A and a stored entry of the row of B that
\* its column selects
Pairs ==
    {<<ak, bk>> \in (0..(Len(A.values) - 1)) \X (0..(Len(B.values) - 1)) :
        /\ At(B.rowPtr, At(A.colIndex, ak)) <= bk
        /\ bk < At(B.rowPtr, At(A.colIndex, ak) + 1)}

\* entry of mul with B a CSRMatrix, after the dimension test: the allocations of pass 1;
\* visits counts, for the bound on the work, how often the innermost body ran on a pair
PassesBegin ==
    /\ op.name = "fromCOO"
    /\ A.cols = B.rows
    /\ op' = Frame("p1.i", [i |-> 0, ak |-> 0, bk |-> 0,
                            marker |-> Fill(B.cols, -1), rowCounts |-> Fill(A.rows, 0),
                            rowPtr |-> <<>>, cap |-> 0, colIndex |-> <<>>, values |-> <<>>,
                            pos |-> <<>>, cursor |-> 0,
                            order |-> <<>>, colsTmp |-> <<>>, valsTmp |-> <<>>,
                            idx |-> 0, w |-> 0,
                            visits |-> [p \in Pairs |-> 0]])
    /\ UNCHANGED <<A, B, C, ea, eb, M, Mprev, steps, buf>>

\* pass 1, for (let i = 0; i < rows; i++); after the last row the prefix sum, the
\* allocation of values and colIndex, marker.fill(-1) and the allocation of pos
Pass1ForI ==
    /\ op.name = "p1.i"
    /\ LET f == op.args
       IN  IF f.i < A.rows
           THEN op' = Frame("p1.ak", [f EXCEPT !.ak = At(A.rowPtr, f.i)])
           ELSE LET rowPtr == CapacityPrefix(Fill(A.rows + 1, 0), f.rowCounts, 0)
                    cap == At(rowPtr, A.rows)
                IN  op' = Frame("p2.i", [f EXCEPT !.rowPtr = rowPtr, !.cap = cap,
                                                  !.values = Fill(cap, 0),
                                                  !.colIndex = Fill(cap, 0),
                                                  !.marker = Fill(B.cols, -1),
                                                  !.pos = Fill(B.cols, 0),
                                                  !.i = 0])
    /\ UNCHANGED <<A, B, C, ea, eb, M, Mprev, steps, buf>>

\* pass 1, for (let ak = aStart; ak < aEnd; ak++)
Pass1ForAk ==
    /\ op.name = "p1.ak"
    /\ LET f == op.args
       IN  IF f.ak < At(A.rowPtr, f.i + 1)
           THEN op' = Frame("p1.bk", [f EXCEPT !.bk = At(B.rowPtr, At(A.colIndex, f.ak))])
           ELSE op' = Frame("p1.i", [f EXCEPT !.i = f.i + 1])
    /\ UNCHANGED <<A, B, C, ea, eb, M, Mprev, steps, buf>>

\* pass 1, for (let bk = bStart; bk < bEnd; bk++) with its body
Pass1ForBk ==
    /\ op.name = "p1.bk"
    /\ LET f == op.args
       IN  IF f.bk < At(B.rowPtr, At(A.colIndex, f.ak) + 1)
           THEN LET st == Pass1Mark([marker |-> f.marker, rowCounts |-> f.rowCounts],
                                    f.i, At(B.colIndex, f.bk))
                IN  op' = Frame("p1.bk",
                                [f EXCEPT !.marker = st.marker, !.rowCounts = st.rowCounts,
                                          !.visits[<<f.ak, f.bk>>] = @ + 1,
                                          !.bk = f.bk + 1])
           ELSE op' = Frame("p1.ak", [f EXCEPT !.ak = f.ak + 1])
    /\ UNCHANGED <<A, B, C, ea, eb, M, Mprev, steps, buf>>

\* pass 2, for (let i = 0; i < rows; i++) { let cursor = rowPtr[i];
Pass2ForI ==
    /\ op.name = "p2.i"
    /\ LET f == op.args
       IN  IF f.i < A.rows
           THEN op' = Frame("p2.ak", [f EXCEPT !.cursor = At(f.rowPtr, f.i),
                                               !.ak = At(A.rowPtr, f.i)])
           ELSE op' = Frame("p2.return", f)
    /\ UNCHANGED <<A, B, C, ea, eb, M, Mprev, steps, buf>>

\* the slices of values and colIndex and return new CSRMatrix(...)
PassesReturn ==
    /\ op.name = "p2.return"
    /\ op' = Frame("multiplied", op.args)
    /\ LET f == op.args
           nnz == At(f.rowPtr, A.rows)
       IN  C' = NewCSR(A.rows, B.cols, Slice(f.values, 0, nnz), Slice(f.colIndex, 0, nnz),
                       f.rowPtr)
    /\ UNCHANGED <<A, B, ea, eb, M, Mprev, steps, buf>>

\* pass 2, for (let ak = aStart; ak < aEnd; ak++) with if (aik === 0) continue; after
\* the last entry the start of the compaction of row i
Pass2ForAk ==
    /\ op.name = "p2.ak"
    /\ LET f == op.args
           start == At(f.rowPtr, f.i)
           len == f.cursor - start
       IN  IF f.ak < At(A.rowPtr, f.i + 1)
           THEN IF At(A.values, f.ak) = 0
                THEN op' = Frame("p2.ak", [f EXCEPT !.ak = f.ak + 1])
                ELSE op' = Frame("p2.bk",
                                 [f EXCEPT !.bk = At(B.rowPtr, At(A.colIndex, f.ak))])
           ELSE IF len <= 0
           THEN op' = Frame("p2.i", [f EXCEPT !.rowPtr = Put(f.rowPtr, f.i + 1, start),
                                              !.i = f.i + 1])
           ELSE LET colsTmp == Slice(f.colIndex, start, start + len)
                IN  op' = Frame("p2.idx",
                                [f EXCEPT !.colsTmp = colsTmp,
                                          !.valsTmp = Slice(f.values, start, start + len),
                                          !.order = SortOrder(colsTmp, len),
                                          !.w = start, !.idx = 0])
    /\ UNCHANGED <<A, B, C, ea, eb, M, Mprev, steps, buf>>

\* pass 2, for (let bk = bStart; bk < bEnd; bk++) with its body
Pass2ForBk ==
    /\ op.name = "p2.bk"
    /\ LET f == op.args
       IN  IF f.bk < At(B.rowPtr, At(A.colIndex, f.ak) + 1)
           THEN LET st == Pass2Place(f, f.i, At(B.colIndex, f.bk),
                                     At(A.values, f.ak) * At(B.values, f.bk))
                IN  op' = Frame("p2.bk", [st EXCEPT !.visits[<<f.ak, f.bk>>] = @ + 1,
                                                    !.bk = f.bk + 1])
           ELSE op' = Frame("p2.ak", [f EXCEPT !.ak = f.ak + 1])
    /\ UNCHANGED <<A, B, C, ea, eb, M, Mprev, steps, buf>>

\* compaction, for (let idx = 0; idx < order.length; idx++) with its body; after the
\* last index rowPtr[i + 1] = w
Pass2ForIdx ==
    /\ op.name = "p2.idx"
    /\ LET f == op.args
           t == At(f.order, f.idx)
       IN  IF f.idx < Len(f.order)
           THEN LET st == CompactWrite(f, At(f.rowPtr, f.i), At(f.colsTmp, t), At(f.valsTmp, t))
                IN  op' = Frame("p2.idx", [st EXCEPT !.idx = f.idx + 1])
           ELSE op' = Frame("p2.i", [f EXCEPT !.rowPtr = Put(f.rowPtr, f.i + 1, f.w),
                                              !.i = f.i + 1])
    /\ UNCHANGED <<A, B, C, ea, eb, M, Mprev, steps, buf>>

\* a statement of the loops of add, sub and mul
LoopStep ==
    \/ MergeBegin
    \/ MergeFor
    \/ MergeWhile
    \/ PassesBegin
    \/ Pass1ForI
    \/ Pass1ForAk
    \/ Pass1ForBk
    \/ Pass2ForI
    \/ Pass2ForAk
    \/ Pass2ForBk
    \/ Pass2ForIdx

NextLoops ==
    \/ LoopStep
    \/ MergeReturn
    \/ PassesReturn

SpecLoops == InitMul /\ [][NextLoops]_vars

\* the engine is synchronous: a call that has started runs the next statement of its
\* loops
SpecLoopsFair == SpecLoops /\ WF_vars(LoopStep)

(* Backend runs: Matrix.fromCOO is called twice on the same rows, cols and entries, *)
(* with two thresholds                                                             *)

\* A = Matrix.fromCOO(rows, cols, l, t1) and B = Matrix.fromCOO(rows, cols, l, t2)
CallFromCOOTwice ==
    /\ op.name = "none"
    /\ \E rows \in Dims, cols \in Dims, t1 \in Thresholds, t2 \in Thresholds :
           \E l \in ListsUpTo(Triplets(rows, cols, ValsZ), MaxEntries) :
               /\ A' = MatrixFromCOO(rows, cols, l, t1)
               /\ B' = MatrixFromCOO(rows, cols, l, t2)
               /\ op' = Op("fromCOO", <<rows, cols, l, t1, t2>>)
    /\ UNCHANGED <<C, ea, eb, M, Mprev, steps, buf>>

NextBackends == CallFromCOOTwice

SpecBackends == InitFacade /\ [][NextBackends]_vars

-----------------------------------------------------------------------------

(* Repack runs: a facade is built, then set, repack and mul by the scalar 0 are    *)
(* called in any order, the result of mul becoming the receiver of the next call  *)

\* M = M.mul(0): the caller goes on with the facade mul returned
FacadeScaleByZero ==
    /\ IsFacade(M)
    /\ Called("scale", MatrixScale(M, 0), MatrixScale(M, 0))
    /\ UNCHANGED steps

NextRepack ==
    \/ CallIdentity
    \/ CallFrom2D
    \/ CallFromCOO
    \/ FacadeSet
    \/ FacadeRepack
    \/ FacadeScaleByZero

SpecRepack == InitFacade /\ [][NextRepack]_vars

-----------------------------------------------------------------------------

(* List runs: a caller hands a list of triplets to CSRMatrix.fromCOO or to         *)
(* Matrix.fromCOO; ea holds the list as handed and as the call left it            *)

\* the caller's list after Matrix.fromCOO: the dense branch only reads it, the CSR
\* branch hands it to CSRMatrix.fromCOO
MatrixFromCOOList(rows, cols, entries, th) ==
    IF ChooseBackend(rows, cols, FromCOONnz(entries), WithDefault(th)) = "dense"
    THEN entries
    ELSE FromCOOList(entries)

\* C = CSRMatrix.fromCOO(rows, cols, l)
ListCSRFromCOO ==
    /\ op.name = "none"
    /\ \E rows \in Dims, cols \in Dims :
         \E l \in ListsUpTo(Triplets(rows, cols, ValsZ), MaxEntries) :
            /\ C' = FromCOO(rows, cols, l)
            /\ ea' = Given(l)
            /\ op' = Op("CSRMatrix.fromCOO", <<rows, cols, l>>)
    /\ UNCHANGED <<A, B, eb, M, Mprev, steps, buf>>

\* C = Matrix.fromCOO(rows, cols, l, th)
ListMatrixFromCOO ==
    /\ op.name = "none"
    /\ \E rows \in Dims, cols \in Dims, th \in Thresholds :
         \E l \in ListsUpTo(Triplets(rows, cols, ValsZ), MaxEntries) :
            /\ C' = MatrixFromCOO(rows, cols, l, th)
            /\ ea' = [given |-> l, now |-> MatrixFromCOOList(rows, cols, l, th)]
            /\ op' = Op("Matrix.fromCOO", <<rows, cols, l, th>>)
    /\ UNCHANGED <<A, B, eb, M, Mprev, steps, buf>>

NextLists ==
    \/ ListCSRFromCOO
    \/ ListMatrixFromCOO

SpecLists == InitFacade /\ [][NextLists]_vars

-----------------------------------------------------------------------------

(* Version runs: A and B are built by fromCOO, with up to MaxInner columns in A,  *)
(* then both versions of A.mul(B) are called                                     *)

InitVersions ==
    \E m \in Dims, k \in 0..MaxInner, n \in Dims :
        /\ k * (m + n) <= MaxCells
        /\ \E SA \in SUBSET Cells(m, k), SB \in SUBSET Cells(k, n) :
            /\ Cardinality(SA) + Cardinality(SB) <= MaxNnz \/ m * n = 1
            /\ \E fA \in [SA -> ValsZ], fB \in [SB -> ValsZ] :
                /\ ea = Given(ListDown(SA, fA, k))
                /\ eb = Given(ListDown(SB, fB, n))
                /\ A = FromCOO(m, k, ListDown(SA, fA, k))
                /\ B = FromCOO(k, n, ListDown(SB, fB, n))
        /\ C = NoMatrix
        /\ op = Op("fromCOO", <<>>)
        /\ M = NoMatrix
        /\ Mprev = NoMatrix
        /\ steps = 0
        /\ buf = NoBuffers

\* C = the pair of what A.mul(B) returns in the two-pass version and in the Map version
MulBothVersions ==
    /\ op.name = "fromCOO"
    /\ C' = <<CSRMulCSR(A, B), CSRMulCSRMap(A, B)>>
    /\ op' = Op("mul", <<>>)
    /\ UNCHANGED <<A, B, ea, eb, M, Mprev, steps, buf>>

NextVersions == MulBothVersions

SpecVersions == InitVersions /\ [][NextVersions]_vars

-----------------------------------------------------------------------------

-----------------------------------------------------------------------------
(* Properties of a CSR matrix *)

\* rowPtr has length rows + 1, starts at 0, is non-decreasing and ends at values.length
RowPtrConsistent(X) ==
    /\ Len(X.rowPtr) = X.rows + 1
    /\ Len(X.colIndex) = Len(X.values)
    /\ At(X.rowPtr, 0) = 0
    /\ \A r \in 0..(X.rows - 1) : At(X.rowPtr, r) <= At(X.rowPtr, r + 1)
    /\ At(X.rowPtr, X.rows) = Len(X.values)

\* within every row the colIndex slice is strictly increasing
ColumnsStrictlyIncreasing(X) ==
    \A r \in 0..(X.rows - 1) :
        \A k \in At(X.rowPtr, r)..(At(X.rowPtr, r + 1) - 2) :
            At(X.colIndex, k) < At(X.colIndex, k + 1)

NoStoredZero(X) == \A k \in 1..Len(X.values) : X.values[k] # 0

\* whether row i holds an entry at column j
Stored(X, i, j) ==
    \E k \in At(X.rowPtr, i)..(At(X.rowPtr, i + 1) - 1) : At(X.colIndex, k) = j

\* the sum of the values of the entries of a COO list at (i, j)
RECURSIVE SumAt(_, _, _, _)
SumAt(entries, n, i, j) ==
    IF n = 0 THEN 0
    ELSE SumAt(entries, n - 1, i, j)
         + (IF entries[n].i = i /\ entries[n].j = j THEN entries[n].v ELSE 0)

\* the mathematical product cell: sum over k of X[i,k] * Y[k,j], X and Y dense
RECURSIVE ProductCell(_, _, _, _, _)
ProductCell(X, Y, i, j, k) ==
    IF k = 0 THEN 0
    ELSE ProductCell(X, Y, i, j, k - 1)
         + At(X.data, i * X.cols + (k - 1)) * At(Y.data, (k - 1) * Y.cols + j)

\* the cell (i, j) of A x B receives non-zero partial products that sum to 0
Cancels(X, Y, i, j) ==
    /\ ProductCell(X, Y, i, j, X.cols) = 0
    /\ \E k \in 0..(X.cols - 1) :
          At(X.data, i * X.cols + k) * At(Y.data, k * Y.cols + j) # 0

-----------------------------------------------------------------------------
(* Claims on CSR x CSR *)

\* C1: for A (m x k) and B (k x n) built by fromCOO from integer entries at distinct
\* positions, A.mul(B).toDense() equals A.toDense().mul(B.toDense()) in every cell,
\* cells whose partial products cancel to 0 included.
C1_MulEqualsDense ==
    (op.name = "mul" /\ DistinctPositions(ea.given) /\ DistinctPositions(eb.given)) =>
        /\ IsCSR(C)
        /\ LET D == DenseMulDense(CSRToDense(A), CSRToDense(B))
               E == CSRToDense(C)
           IN  /\ E.rows = D.rows /\ E.cols = D.cols
               /\ \A i \in 0..(D.rows - 1), j \in 0..(D.cols - 1) :
                     DenseGet(E, i, j) = DenseGet(D, i, j)

\* a product was computed in which some cell cancels exactly
C1_Witness ==
    /\ op.name = "mul" /\ IsCSR(C)
    /\ DistinctPositions(ea.given) /\ DistinctPositions(eb.given)
    /\ \E i \in 0..(A.rows - 1), j \in 0..(B.cols - 1) :
          /\ Cancels(CSRToDense(A), CSRToDense(B), i, j)
          /\ DenseGet(CSRToDense(C), i, j) = 0

\* C2: the result of CSR x CSR satisfies the CSR invariants: rowPtr of length rows+1
\* from 0, non-decreasing, ending at values.length; strictly increasing columns in
\* every row; no stored 0, so that a cell whose products cancel has no stored entry.
C2_MulResultInvariants ==
    op.name = "mul" =>
        /\ IsCSR(C)
        /\ C.rows = A.rows /\ C.cols = B.cols
        /\ RowPtrConsistent(C)
        /\ ColumnsStrictlyIncreasing(C)
        /\ NoStoredZero(C)
        /\ \A i \in 0..(C.rows - 1), j \in 0..(C.cols - 1) :
              Cancels(CSRToDense(A), CSRToDense(B), i, j) => ~Stored(C, i, j)

\* a product with a cancelled cell, which the result does not store
C2_Witness ==
    /\ op.name = "mul" /\ IsCSR(C)
    /\ \E i \in 0..(A.rows - 1), j \in 0..(B.cols - 1) :
          Cancels(CSRToDense(A), CSRToDense(B), i, j) /\ ~Stored(C, i, j)
    /\ Len(C.values) = 0

-----------------------------------------------------------------------------
(* Claims on the CSR invariant and on fromCOO *)

\* C3: every CSRMatrix produced by any operation (fromCOO, fromDense, set, add, sub,
\* mul by a scalar, mul by a matrix, transpose), in any sequence, has strictly
\* increasing columns in each row and stores no value that is exactly 0.
C3_EveryCSRSortedNoZero ==
    /\ IsCSR(A) => (ColumnsStrictlyIncreasing(A) /\ NoStoredZero(A))
    /\ IsCSR(C) => (ColumnsStrictlyIncreasing(C) /\ NoStoredZero(C))

\* C4: for every COO list (unsorted, several entries at one position allowed) and
\* every in-bounds cell (i, j), fromCOO(rows, cols, entries).toDense().get(i, j) is the
\* sum of the values of the entries at (i, j), 0 if there is none; a position whose
\* entries sum to exactly 0 has no stored entry.
C4_FromCOOSumsDuplicates ==
    (op.name = "toDense" /\ steps = 0) =>
        \A i \in 0..(A.rows - 1), j \in 0..(A.cols - 1) :
            /\ DenseGet(C, i, j) = SumAt(ea.given, Len(ea.given), i, j)
            /\ SumAt(ea.given, Len(ea.given), i, j) = 0 => ~Stored(A, i, j)

-----------------------------------------------------------------------------
(* Claims on the facade *)

\* whether nnz / (rows * cols) <= th, the density being 0 when rows * cols = 0
DensityAtMost(rows, cols, nnz, th) ==
    IF rows * cols = 0 THEN 0 <= th[1] ELSE nnz * th[2] <= th[1] * (rows * cols)

\* the number of non-zero cells of the matrix a facade holds
NonZeroCells(F) == DenseNonZero(ToDense(F.impl))

\* C5: Matrix.zeros(rows, cols) succeeds for every rows >= 0 and cols >= 0 and returns
\* a facade of shape rows x cols with backend csr whose get(i, j) is 0 in every cell.
C5_ZerosSucceeds ==
    op.name = "zeros" =>
        /\ IsFacade(C)
        /\ C.impl.rows = op.args[1] /\ C.impl.cols = op.args[2]
        /\ Backend(C) = "csr"
        /\ \A i \in 0..(op.args[1] - 1), j \in 0..(op.args[2] - 1) : MatrixGet(C, i, j) = 0

\* C6: chooseBackend(rows, cols, nnz, threshold) returns csr if and only if
\* nnz / (rows * cols) <= threshold, the density being 0 when rows * cols = 0; a density
\* equal to the threshold yields csr, and the default threshold is 0.2.
C6_ChooseBackendRule ==
    op.name = "chooseBackend" =>
        LET rows == op.args[1]
            cols == op.args[2]
            nnz == op.args[3]
            th == IF op.args[4] = Undefined THEN <<1, 5>> ELSE op.args[4]
        IN  /\ C.value \in {"csr", "dense"}
            /\ C.value = "csr" <=> DensityAtMost(rows, cols, nnz, th)

\* chooseBackend was called without a threshold on a density of exactly 0.2
C6_Witness ==
    /\ op.name = "chooseBackend"
    /\ op.args[4] = Undefined
    /\ op.args[3] > 0 /\ 5 * op.args[3] = op.args[1] * op.args[2]
    /\ C.value = "csr"

\* C7 as stated: for from2D, fromCOO and identity the backend is csr if and only if
\* nnz / (rows * cols) <= threshold, nnz being the number of non-zero cells of the
\* constructed matrix.
C7_BackendByNonZeroCells ==
    (op.name \in {"from2D", "fromCOO", "identity"} /\ IsFacade(C)) =>
        (Backend(C) = "csr" <=>
            DensityAtMost(C.impl.rows, C.impl.cols, NonZeroCells(C), C.threshold))

\* C7 amended: for from2D and identity the backend is csr if and only if
\* nnz / (rows * cols) <= threshold with nnz the number of non-zero cells; for fromCOO
\* it is csr if and only if entries.length / (rows * cols) <= threshold, every entry of
\* the list counted, zero-valued and same-position entries included.
C7_BackendAtConstruction ==
    (op.name \in {"from2D", "fromCOO", "identity"} /\ IsFacade(C)) =>
        LET nnz == IF op.name = "fromCOO" THEN Len(op.args[3]) ELSE NonZeroCells(C)
            th == IF op.args[Len(op.args)] = Undefined THEN <<1, 5>>
                  ELSE op.args[Len(op.args)]
        IN  /\ C.threshold = th
            /\ Backend(C) = "csr" <=> DensityAtMost(C.impl.rows, C.impl.cols, nnz, th)

\* fromCOO chose dense on a list whose length exceeds the threshold although the
\* non-zero cells of the matrix do not
C7_Witness ==
    /\ op.name = "fromCOO" /\ IsFacade(C)
    /\ Backend(C) = "dense"
    /\ DensityAtMost(C.impl.rows, C.impl.cols, NonZeroCells(C), C.threshold)
    /\ ~DistinctPositions(op.args[3])

\* C8: right after repack() the backend equals chooseBackend(rows, cols, nnz, threshold)
\* with nnz the count of non-zero cells if the representation was dense and
\* values.length if it was CSR; the representation is replaced only when that decision
\* differs from the backend held before the call, else the same object is kept.
C8_RepackDecision ==
    op.name = "repack" =>
        LET before == Mprev.impl
            nnz == IF IsDense(before)
                   THEN Cardinality({k \in 1..Len(before.data) : before.data[k] # 0})
                   ELSE Len(before.values)
            decision == ChooseBackend(before.rows, before.cols, nnz, Mprev.threshold)
        IN  /\ Backend(M) = decision
            /\ decision = Backend(Mprev) => (M.impl = before /\ M.ref = Mprev.ref)
            /\ decision # Backend(Mprev) => M.ref # Mprev.ref
            /\ M.threshold = Mprev.threshold

\* repack turned a CSR representation whose values.length differs from its number of
\* non-zero cells into a dense one
C8_Witness ==
    /\ op.name = "repack"
    /\ IsCSR(Mprev.impl) /\ IsDense(M.impl)
    /\ Len(Mprev.impl.values) # NonZeroCells(Mprev)

\* C9: repack() changes neither the shape nor the content of the facade: for every
\* facade reachable by construction and set calls and every in-bounds (i, j), get(i, j)
\* is the same before and after, and rows and cols are unchanged.
C9_RepackKeepsContent ==
    op.name = "repack" =>
        /\ M.impl.rows = Mprev.impl.rows /\ M.impl.cols = Mprev.impl.cols
        /\ \A i \in 0..(M.impl.rows - 1), j \in 0..(M.impl.cols - 1) :
              MatrixGet(M, i, j) = MatrixGet(Mprev, i, j)

\* C10: the backend of a facade changes only inside repack(): a step of set, get, add,
\* sub, mul, transpose, matvec or toDense leaves the backend of the receiver as it was,
\* even when the write makes its density cross the threshold.
C10_BackendChangesOnlyInRepack ==
    [][(IsFacade(M) /\ op'.name # "repack") =>
          (IsFacade(M') /\ Backend(M') = Backend(M))]_vars

\* a set made the density of a CSR-backed facade exceed its threshold and the backend
\* is still csr
C10_Witness ==
    /\ op.name = "set"
    /\ IsFacade(M) /\ Backend(M) = "csr" /\ Backend(Mprev) = "csr"
    /\ ChooseBackend(Mprev.impl.rows, Mprev.impl.cols, NonZeroCells(Mprev), Mprev.threshold)
          = "csr"
    /\ ChooseBackend(M.impl.rows, M.impl.cols, NonZeroCells(M), M.threshold) = "dense"

-----------------------------------------------------------------------------
(* Claims on single calls *)

\* the value read at (i, j) of a matrix of any class
ValueAt(X, i, j) == Get(Unwrap(X), i, j)

\* whether X and Y have the same shape and the same value in every cell
SameContent(X, Y) ==
    /\ Rows(X) = Rows(Y) /\ Cols(X) = Cols(Y)
    /\ \A i \in 0..(Rows(X) - 1), j \in 0..(Cols(X) - 1) : ValueAt(X, i, j) = ValueAt(Y, i, j)

\* C11: for every DenseMatrix A, CSRMatrix.fromDense(A).toDense() has the shape of A and
\* the value of A in every cell, and the intermediate CSR stores exactly the non-zero
\* cells of A.
C11_FromDenseRoundTrip ==
    op.name = "fromDense.toDense" =>
        /\ IsDense(C) /\ SameContent(C, A)
        /\ IsCSR(B) /\ RowPtrConsistent(B)
        /\ Len(B.values) = Cardinality({k \in 1..Len(A.data) : A.data[k] # 0})
        /\ \A i \in 0..(A.rows - 1), j \in 0..(A.cols - 1) :
              Stored(B, i, j) <=> DenseGet(A, i, j) # 0
        /\ NoStoredZero(B)

\* the round trip was made on a 2 x 2 dense matrix with zero and non-zero cells
C11_Witness ==
    /\ op.name = "fromDense.toDense"
    /\ A.rows = 2 /\ A.cols = 2
    /\ Len(B.values) = 3

\* C12: for every CSRMatrix A, A.sub(A) is a CSRMatrix of the same shape with no stored
\* entry (values.length = 0, every rowPtr element 0) and get(i, j) = 0 in every cell.
C12_SubSelfIsEmpty ==
    (op.name = "sub" /\ IsCSR(A) /\ B = A) =>
        /\ IsCSR(C)
        /\ C.rows = A.rows /\ C.cols = A.cols
        /\ Len(C.values) = 0 /\ Len(C.colIndex) = 0
        /\ Len(C.rowPtr) = A.rows + 1
        /\ \A k \in 1..Len(C.rowPtr) : C.rowPtr[k] = 0
        /\ \A i \in 0..(A.rows - 1), j \in 0..(A.cols - 1) : CSRGet(C, i, j) = 0

\* A.sub(A) was called on a CSR matrix with two stored entries
C12_Witness ==
    /\ op.name = "sub" /\ IsCSR(A) /\ B = A
    /\ Len(A.values) = 2 /\ NoStoredZero(A)
    /\ IsCSR(C)

\* C13: for every matrix A (DenseMatrix or CSRMatrix) and the all-zero matrix Z of the
\* same shape (an empty CSRMatrix or a zero DenseMatrix), A.add(Z) has the shape of A
\* and the value of A in every cell.
C13_AddZeroIsIdentity ==
    (op.name = "add" /\ ~IsFacade(A) /\ B \in ZeroMatrices(A.rows, A.cols)) =>
        (~IsError(C) /\ SameContent(C, A))

\* C14: for every DenseMatrix and every CSRMatrix A of shape r x c (square, rectangular,
\* 1 x n and n x 1 included), A.transpose() has shape c x r with
\* transpose.get(j, i) = A.get(i, j), A.transpose().transpose() has shape r x c and
\* equals A in every cell, and for CSR the transposed result has strictly increasing
\* columns per row.
C14_TransposeInvolution ==
    /\ (op.name = "transpose" /\ ~IsFacade(A)) =>
          /\ C.kind = A.kind
          /\ C.rows = A.cols /\ C.cols = A.rows
          /\ \A i \in 0..(A.rows - 1), j \in 0..(A.cols - 1) : Get(C, j, i) = Get(A, i, j)
          /\ IsCSR(C) => (RowPtrConsistent(C) /\ ColumnsStrictlyIncreasing(C))
    /\ (op.name = "transpose.transpose" /\ ~IsFacade(A)) =>
          /\ C.kind = A.kind
          /\ SameContent(C, A)
          /\ IsCSR(C) => (RowPtrConsistent(C) /\ ColumnsStrictlyIncreasing(C))

\* C15: add and sub with operands of different shape, mul by a matrix B with
\* receiver.cols # B.rows, and matvec with x.length # cols all fail with an error, for
\* every combination of DenseMatrix, CSRMatrix and facade operands, and after the
\* failure the receiver and the operand hold the contents they had before the call.
C15_ShapeMismatchFails ==
    LET mismatch ==
            \/ op.name \in {"add", "sub"} /\ (Rows(A) # Rows(B) \/ Cols(A) # Cols(B))
            \/ op.name = "mul" /\ Cols(A) # Rows(B)
            \/ op.name = "matvec" /\ Len(B.data) # Cols(A)
    IN  mismatch => (IsError(C) /\ A = op.args[1] /\ B = op.args[2])

\* a facade over a CSR matrix was multiplied by a facade whose rows differ from its
\* cols, and the call threw
C15_Witness ==
    /\ op.name = "mul"
    /\ IsFacade(A) /\ IsCSR(A.impl) /\ IsFacade(B)
    /\ Cols(A) # Rows(B)
    /\ IsError(C)

\* whether (i, j) lies outside [0, rows) x [0, cols)
OutOfBounds(rows, cols, i, j) == ~(0 <= i /\ i < rows /\ 0 <= j /\ j < cols)

\* C16: get(i, j) and set(i, j, v) with i outside [0, rows) or j outside [0, cols) fail
\* on DenseMatrix, CSRMatrix and the facade, and CSRMatrix.fromCOO fails if any entry is
\* out of bounds; a failed set leaves the receiver's stored entries as before, and a
\* failed construction returns no matrix.
C16_OutOfBoundsFails ==
    /\ (op.name = "get"
            /\ OutOfBounds(Rows(op.args[1]), Cols(op.args[1]), op.args[2], op.args[3]))
          => IsError(C)
    /\ (op.name = "set"
            /\ OutOfBounds(Rows(op.args[1]), Cols(op.args[1]), op.args[2], op.args[3]))
          => (IsError(C) /\ A = op.args[1])
    /\ (op.name = "fromCOO"
            /\ \E n \in 1..Len(op.args[3]) :
                  OutOfBounds(op.args[1], op.args[2], op.args[3][n].i, op.args[3][n].j))
          => (IsError(C) /\ B = NoMatrix)

\* fromCOO threw on a list whose second entry only is out of bounds, by its column
C16_Witness ==
    /\ op.name = "fromCOO"
    /\ Len(op.args[3]) = 2
    /\ ~OutOfBounds(op.args[1], op.args[2], op.args[3][1].i, op.args[3][1].j)
    /\ op.args[3][2].i \in 0..(op.args[1] - 1) /\ op.args[3][2].j = op.args[2]
    /\ IsError(C) /\ B = NoMatrix

\* whether the buffer is non-decreasing
NonDecreasing(a) == \A k \in 1..(Len(a) - 1) : a[k] <= a[k + 1]

\* whether the buffers handed to the constructor break a length or an end of rowPtr:
\* values.length # colIndex.length, rowPtr.length # rows + 1, rowPtr[0] # 0 or
\* rowPtr[rows] # values.length
BreaksLengths(rows, values, colIndex, rowPtr) ==
    \/ Len(values) # Len(colIndex)
    \/ Len(rowPtr) # rows + 1
    \/ (Len(rowPtr) = rows + 1 /\ (rowPtr[1] # 0 \/ rowPtr[rows + 1] # Len(values)))

\* C17 as stated: new CSRMatrix(rows, cols, values, colIndex, rowPtr) fails whenever
\* values.length # colIndex.length, or rowPtr.length # rows + 1, or rowPtr[0] # 0, or
\* rowPtr[rows] # values.length, or rowPtr is not non-decreasing, and succeeds otherwise
\* without checking column order.
C17_ConstructorValidatesRowPtr ==
    op.name = "new" =>
        (IsError(C) <=> (\/ BreaksLengths(op.args[1], op.args[3], op.args[4], op.args[5])
                         \/ ~NonDecreasing(op.args[5])))

\* C17 amended: the constructor fails exactly when values.length # colIndex.length, or
\* rowPtr.length # rows + 1, or rowPtr[0] # 0, or rowPtr[rows] # values.length; it
\* succeeds otherwise, keeping the buffers as given, and checks neither that rowPtr is
\* non-decreasing nor the column order.
C17_ConstructorValidatesLengths ==
    op.name = "new" =>
        /\ IsError(C) <=> BreaksLengths(op.args[1], op.args[3], op.args[4], op.args[5])
        /\ ~IsError(C) =>
              /\ IsCSR(C)
              /\ C.rows = op.args[1] /\ C.cols = op.args[2]
              /\ C.values = op.args[3] /\ C.colIndex = op.args[4] /\ C.rowPtr = op.args[5]

\* the constructor accepted a rowPtr that is not non-decreasing
C17_Witness ==
    /\ op.name = "new"
    /\ IsCSR(C)
    /\ ~NonDecreasing(C.rowPtr)

\* the addresses held by an object
Held(seq) == {seq[k] : k \in 1..Len(seq)}

\* C18: the matrix returned by toDense, add, sub, mul (scalar or matrix) and transpose,
\* on DenseMatrix and on CSRMatrix, shares no backing buffer with the receiver or the
\* operand: set calls on the result leave the receiver and the operand as they were
\* when the call returned, and set calls on the receiver or the operand leave the
\* result as it was.
C18_ResultSharesNoBuffer ==
    /\ op.name # "given" =>
          Held(buf.C) \cap (Held(buf.A) \cup Held(buf.B)) = {}
    /\ (op.name = "set" /\ op.args[4] = {"C"}) =>
          (A = op.args[1] /\ B = op.args[2])
    /\ (op.name = "set" /\ op.args[4] \subseteq {"A", "B"}) =>
          C = op.args[3]

\* two set calls changed the dense copy that toDense returned on a DenseMatrix, and
\* the receiver is as it was
C18_Witness ==
    /\ op.name = "set" /\ op.args[5] = "toDense"
    /\ steps = 2
    /\ op.args[4] = {"C"}
    /\ IsDense(A) /\ A = op.args[1]
    /\ C.data # A.data /\ op.args[3].data = A.data

\* C19: for every CSRMatrix A and every scalar s, s = 0 included, A.mul(s) is a
\* CSRMatrix with the shape, the rowPtr and the colIndex of A (hence as many stored
\* entries) and with values[k] = A.values[k] * s for every k; A is unchanged.
C19_ScaleKeepsStructure ==
    (op.name = "scale" /\ IsCSR(op.args[1])) =>
        LET before == op.args[1]
            s == op.args[2].value
        IN  /\ IsCSR(C)
            /\ C.rows = before.rows /\ C.cols = before.cols
            /\ C.rowPtr = before.rowPtr /\ C.colIndex = before.colIndex
            /\ Len(C.values) = Len(before.values)
            /\ \A k \in 1..Len(C.values) : C.values[k] = before.values[k] * s
            /\ A = before

\* a CSR matrix with two non-zero stored entries was multiplied by 0 and the result
\* stores two zeros
C19_Witness ==
    /\ op.name = "scale" /\ IsCSR(A) /\ op.args[2].value = 0
    /\ Len(A.values) = 2 /\ NoStoredZero(A)
    /\ IsCSR(C) /\ C.values = <<0, 0>>

\* the call recorded in op is an add, sub or mul (matrix) that did not throw
Combined == op.name \in {"add", "sub", "mul"} /\ ~IsError(C)

\* the same operation on the two densified operands
OnDensified ==
    LET X == ToDense(op.args[1])
        Y == ToDense(op.args[2])
    IN  IF op.name = "mul" THEN DenseMulDense(X, Y)
        ELSE DenseCombine(X, Y, IF op.name = "add" THEN 1 ELSE -1)

\* the dense content of the result is the operation on the densified operands
MatchesDensified == Combined => ToDense(C) = OnDensified

\* a CSRMatrix receiver with a CSRMatrix operand gives a CSRMatrix, every other
\* combination gives a DenseMatrix
ClassByOperands ==
    Combined => IF IsCSR(op.args[1]) /\ IsCSR(op.args[2]) THEN IsCSR(C) ELSE IsDense(C)

\* C20: for add, sub and mul, and every receiver and operand among DenseMatrix,
\* CSRMatrix and a facade over either with compatible shapes, the dense content of
\* the result is the operation on the densified operands; CSR with CSR returns a
\* CSRMatrix and every other combination returns a DenseMatrix.
C20_MixedBackends == MatchesDensified /\ ClassByOperands

-----------------------------------------------------------------------------
(* Claims on sequences of calls and on the algorithms *)

\* the number of cells of X that read non-zero
NonZeroCount(X) ==
    Cardinality({c \in Cells(X.rows, X.cols) : Get(X, c \div X.cols, c % X.cols) # 0})

\* C21: from a CSRMatrix built by fromCOO from non-zero entries at distinct positions
\* and a DenseMatrix with the same content, after any sequence of in-bounds set calls
\* applied to both, every cell reads the same on both; after each set the CSR
\* invariants hold (consistent rowPtr, strictly increasing columns, no stored 0), the
\* number of stored entries is the number of non-zero cells, and set(i, j, 0) leaves
\* no entry at (i, j).
C21_SetTracksDense ==
    /\ IsCSR(A) /\ IsDense(B)
    /\ \A i \in 0..(A.rows - 1), j \in 0..(A.cols - 1) : CSRGet(A, i, j) = DenseGet(B, i, j)
    /\ RowPtrConsistent(A) /\ ColumnsStrictlyIncreasing(A) /\ NoStoredZero(A)
    /\ Len(A.values) = NonZeroCount(B)
    /\ (op.name = "set" /\ op.args[3] = 0) => ~Stored(A, op.args[1], op.args[2])

\* the last of MaxPairSets set calls wrote 0 over a stored entry, and others remain
C21_Witness ==
    /\ op.name = "set" /\ steps = MaxPairSets /\ op.args[3] = 0
    /\ Stored(C, op.args[1], op.args[2])
    /\ Len(A.values) = Len(C.values) - 1 /\ Len(A.values) >= 2
    /\ CSRToDense(A) = B

\* the call recorded in op is X.add(Y) or X.sub(Y) with X and Y CSR matrices of one
\* shape whose rows have strictly increasing columns
MergedSorted ==
    /\ op.name \in {"add", "sub"}
    /\ IsCSR(op.args[1]) /\ IsCSR(op.args[2])
    /\ op.args[1].rows = op.args[2].rows /\ op.args[1].cols = op.args[2].cols
    /\ ColumnsStrictlyIncreasing(op.args[1]) /\ ColumnsStrictlyIncreasing(op.args[2])

\* a + b, a - b, a alone, b or -b alone at (i, j)
CombinedAt(i, j) ==
    CSRGet(op.args[1], i, j)
        + (IF op.name = "add" THEN 1 ELSE -1) * CSRGet(op.args[2], i, j)

\* the result has strictly increasing columns and the content of the dense sum or
\* difference, and stores an entry exactly where Emitted(i, j) says
MergeEmits(Emitted(_, _)) ==
    MergedSorted =>
        /\ IsCSR(C) /\ RowPtrConsistent(C) /\ ColumnsStrictlyIncreasing(C)
        /\ \A i \in 0..(C.rows - 1), j \in 0..(C.cols - 1) :
              /\ Stored(C, i, j) <=> Emitted(i, j)
              /\ CSRGet(C, i, j) = CombinedAt(i, j)
        /\ CSRToDense(C) = DenseCombine(CSRToDense(op.args[1]), CSRToDense(op.args[2]),
                                        IF op.name = "add" THEN 1 ELSE -1)

\* the column is present in either operand and its combined value is not 0
PresentNonZero(i, j) ==
    /\ Stored(op.args[1], i, j) \/ Stored(op.args[2], i, j)
    /\ CombinedAt(i, j) # 0

\* the column is present in one operand only, or in both with a combined value not 0
PresentUnlessCancelled(i, j) ==
    \/ Stored(op.args[1], i, j) /\ ~Stored(op.args[2], i, j)
    \/ ~Stored(op.args[1], i, j) /\ Stored(op.args[2], i, j)
    \/ Stored(op.args[1], i, j) /\ Stored(op.args[2], i, j) /\ CombinedAt(i, j) # 0

\* C22: for CSR operands A and B of equal shape whose rows have strictly increasing
\* columns, A.add(B) and A.sub(B) give rows in strictly increasing column order with
\* exactly one entry per column present in either operand whose combined value is not
\* 0, none for a column whose combined value is 0, and the dense content of
\* A.toDense() + or - B.toDense().
C22_MergePrunesEveryZero == MergeEmits(PresentNonZero)

\* C22 (amended): as above, but the merge drops an entry only when the column is
\* present in both operands and the combined value is 0; a column present in one
\* operand only is emitted with its value, a stored 0 included.
C22_MergePrunesCancelledOnly == MergeEmits(PresentUnlessCancelled)

\* an add kept the stored 0 of a column that only the receiver holds, next to an
\* entry that only the operand holds
C22_Witness ==
    /\ MergedSorted /\ op.name = "add" /\ IsCSR(C)
    /\ \E i \in 0..(C.rows - 1), j \in 0..(C.cols - 1) :
          /\ Stored(op.args[1], i, j) /\ ~Stored(op.args[2], i, j)
          /\ CSRGet(op.args[1], i, j) = 0 /\ Stored(C, i, j)
    /\ \E i \in 0..(C.rows - 1), j \in 0..(C.cols - 1) :
          ~Stored(op.args[1], i, j) /\ Stored(op.args[2], i, j) /\ Stored(C, i, j)

\* the sum over j of X[i, j] * x[j], from column j on
RECURSIVE RowSum(_, _, _, _)
RowSum(X, x, i, j) ==
    IF j >= X.cols THEN 0 ELSE CSRGet(X, i, j) * At(x, j) + RowSum(X, x, i, j + 1)

\* C23: for every CSRMatrix A built by fromCOO from entries at distinct positions and
\* every vector x of length A.cols, A.matvec(x) has length A.rows and equals
\* A.toDense().matvec(x) component by component, y[i] being the sum over j of
\* A[i, j] * x[j]; a row with no stored entry yields 0.
C23_MatvecEqualsDense ==
    op.name = "matvec" =>
        LET X == op.args[1]
            x == op.args[2]
        IN  /\ ~IsError(C) /\ Len(C.data) = X.rows
            /\ C = DenseMatvec(CSRToDense(X), x)
            /\ \A i \in 0..(X.rows - 1) :
                 /\ At(C.data, i) = RowSum(X, x, i, 0)
                 /\ At(X.rowPtr, i) = At(X.rowPtr, i + 1) => At(C.data, i) = 0

\* a 2 x 2 matrix whose first row stores two entries and whose second row stores none
\* was applied to a vector without zero component: the result is not 0 on the first
\* row and 0 on the second
C23_Witness ==
    /\ op.name = "matvec" /\ A.rows = 2 /\ A.cols = 2
    /\ A.rowPtr = <<0, 2, 2>> /\ NoStoredZero(A)
    /\ op.args[2][1] # 0 /\ op.args[2][2] # 0 /\ op.args[2][1] # op.args[2][2]
    /\ ~IsError(C) /\ C.data[1] # 0 /\ C.data[2] = 0

\* the class of the representation that the algorithm of the receiver's backend
\* returns for the call recorded in op, the operand being unwrapped first
ReturnedClass ==
    LET impl == op.args[1].impl
        rhs == Unwrap(op.args[2])
    IN  IF op.name \in {"scale", "transpose"} THEN (IF IsCSR(impl) THEN "csr" ELSE "dense")
        ELSE IF IsCSR(impl) /\ IsCSR(rhs) THEN "csr" ELSE "dense"

\* C24: every facade operation add, sub, mul and transpose unwraps a facade operand,
\* returns a new Matrix facade, an object distinct from the receiver (and from the
\* operand), with the receiver's threshold, whose backend is the class of the
\* representation the underlying algorithm returned, whatever its density, and leaves
\* the receiver as it was.
C24_RewrapKeepsThresholdAndClass ==
    (op.name \in {"add", "sub", "mul", "scale", "transpose"} /\ ~IsError(C)) =>
        /\ IsFacade(C)
        /\ C.threshold = op.args[1].threshold
        /\ Backend(C) = ReturnedClass
        /\ op.name = "add" => C.impl = Combine(op.args[1].impl, Unwrap(op.args[2]), 1)
        /\ op.name = "sub" => C.impl = Combine(op.args[1].impl, Unwrap(op.args[2]), -1)
        /\ op.name = "mul" => C.impl = Mul(op.args[1].impl, Unwrap(op.args[2]))
        /\ op.name = "scale" => C.impl = Scale(op.args[1].impl, op.args[2].value)
        /\ op.name = "transpose" => C.impl = Transpose(op.args[1].impl)
        /\ M = op.args[1]
        /\ Len(buf.C) = 1 /\ buf.C # buf.A
        /\ buf.C # buf.B

\* a facade over a CSRMatrix with threshold 0 was multiplied by a facade over a
\* CSRMatrix: the product is a facade with threshold 0 over a CSRMatrix that stores an
\* entry, its density above the threshold, and is another object than the receiver
C24_Witness ==
    /\ op.name = "mul" /\ IsFacade(op.args[2])
    /\ IsCSR(M.impl) /\ IsCSR(op.args[2].impl)
    /\ M.threshold = <<0, 1>> /\ op.args[2].threshold # M.threshold
    /\ IsFacade(C) /\ Backend(C) = "csr" /\ C.threshold = <<0, 1>>
    /\ Len(C.impl.values) > 0 /\ NoStoredZero(C.impl)
    /\ ~DensityAtMost(C.impl.rows, C.impl.cols, Len(C.impl.values), C.threshold)
    /\ buf.C # <<>> /\ buf.C # buf.A

\* the call that ran step by step returned what the method returns
LoopsReturn ==
    /\ op.name = "merged" => C = CSRMerge(A, B, op.args.sign)
    /\ op.name = "multiplied" => C = CSRMulCSR(A, B)

\* the entries of row i of X
RowLength(X, i) == At(X.rowPtr, i + 1) - At(X.rowPtr, i)

\* inside the while loop of row i the cursors are within the row slices, and the
\* iterations done are at most the cursor advances, hence at most the entries of the two
\* rows
MergeBounded ==
    op.name = "merge.while" =>
        LET f == op.args
        IN  /\ At(A.rowPtr, f.i) <= f.a /\ f.a <= At(A.rowPtr, f.i + 1)
            /\ At(B.rowPtr, f.i) <= f.b /\ f.b <= At(B.rowPtr, f.i + 1)
            /\ f.n <= (f.a - At(A.rowPtr, f.i)) + (f.b - At(B.rowPtr, f.i))
            /\ f.n <= RowLength(A, f.i) + RowLength(B, f.i)

\* an iteration of the while loop moves no cursor back and moves one forward at least
MergeAdvances ==
    (op.name = "merge.while" /\ op'.name = "merge.while") =>
        /\ op'.args.a >= op.args.a /\ op'.args.b >= op.args.b
        /\ op'.args.a + op'.args.b > op.args.a + op.args.b
        /\ op'.args.n = op.args.n + 1

\* the innermost body ran at most once on a pair in pass 1, at most twice in all
VisitsBounded ==
    /\ op.name \in {"p1.i", "p1.ak", "p1.bk"} => \A p \in Pairs : op.args.visits[p] <= 1
    /\ op.name \in {"p2.i", "p2.ak", "p2.bk", "p2.idx", "p2.return", "multiplied"} =>
          \A p \in Pairs : op.args.visits[p] <= 2

\* the loops of the call are exhausted: it is at its return statement or has returned
Finished == op.name \in {"merge.return", "merged", "p2.return", "multiplied"}

\* C25: the CSR algorithms terminate: in the add and sub merge every iteration of the
\* while loop advances one of the cursors a and b at least, so the loop of a row runs at
\* most (entries of A in the row + entries of B in the row) times; the passes of
\* CSR x CSR run their innermost body on each pair of an entry of A and an entry of the
\* selected row of B a bounded number of times (once per pass); every call reaches its return statement.
C25_LoopsTerminate ==
    /\ [](MergeBounded /\ VisitsBounded /\ LoopsReturn)
    /\ [][MergeAdvances]_vars
    /\ <>Finished

\* the while loop of a row with two entries in A and one in B is exhausted after two
\* iterations, one of them on a shared column
C25_Witness ==
    /\ op.name = "merge.while"
    /\ RowLength(A, op.args.i) = 2 /\ RowLength(B, op.args.i) = 1
    /\ op.args.a = At(A.rowPtr, op.args.i + 1) /\ op.args.b = At(B.rowPtr, op.args.i + 1)
    /\ op.args.n = 2

\* the rowPtr pass 1 leaves: the prefix sums of rowCounts, before pass 2 overwrites them
Pass1Prefix == CapacityPrefix(Fill(A.rows + 1, 0), op.args.rowCounts, 0)

\* inside the loops over ak and bk of row i of pass 2
InRow == op.name \in {"p2.ak", "p2.bk"}

\* the cursor of row i lies between rowPtr[i] and rowPtr[i] + rowCounts[i], below cap
CursorWithinRow ==
    (InRow \/ op.name = "p2.idx") =>
        /\ At(op.args.rowPtr, op.args.i) <= op.args.cursor
        /\ op.args.cursor <= At(op.args.rowPtr, op.args.i) + At(op.args.rowCounts, op.args.i)
        /\ op.args.cursor <= op.args.cap
        /\ At(op.args.rowPtr, op.args.i) <= At(Pass1Prefix, op.args.i)

\* the write index of the compaction lies between the start of the row and the cursor
CompactionWithinRow ==
    op.name = "p2.idx" =>
        /\ At(op.args.rowPtr, op.args.i) <= op.args.w
        /\ op.args.w <= op.args.cursor

\* number of entries the rows of the result keep: the cells of C that are not 0
\* (C has one entry per column and no stored 0, see C1 and C2)
EntriesKept == NonZeroCount(C)

\* the rowPtr returned is non-decreasing and ends at the number of entries kept
FinalRowPtr ==
    /\ op.name \in {"p2.return", "multiplied"} =>
        \A r \in 0..(A.rows - 1) : At(op.args.rowPtr, r) <= At(op.args.rowPtr, r + 1)
    /\ op.name = "multiplied" =>
        /\ C.rowPtr = op.args.rowPtr
        /\ At(C.rowPtr, A.rows) = Len(C.values)
        /\ Len(C.values) = Len(C.colIndex)
        /\ Len(C.values) = EntriesKept

\* C29: in pass 2 of CSR x CSR the write cursor of every row i stays within
\* [rowPtr[i], rowPtr[i] + rowCounts[i]] and never exceeds the capacity cap computed by
\* pass 1, although rowPtr[i + 1] is overwritten with the compacted end of row i before
\* row i + 1 starts; the write index w of the compaction never exceeds the cursor; the
\* rowPtr returned is non-decreasing and rowPtr[rows] is the number of entries kept.
C29_CursorWithinCapacity ==
    /\ CursorWithinRow
    /\ CompactionWithinRow
    /\ FinalRowPtr

\* row 1 starts below the prefix of pass 1 (row 0 was compacted to fewer entries than
\* counted) and has filled every slot pass 1 counted for it
C29_Witness ==
    /\ op.name = "p2.idx"
    /\ op.args.i = 1
    /\ At(op.args.rowPtr, 1) < At(Pass1Prefix, 1)
    /\ At(op.args.rowCounts, 1) > 0
    /\ op.args.cursor = At(op.args.rowPtr, 1) + At(op.args.rowCounts, 1)
    /\ op.args.w = op.args.cursor

\* C26: for the same rows, cols and entries (duplicates at one position and zero
\* values allowed) and any two thresholds, the two facades Matrix.fromCOO returns read
\* the same get(i, j) at every in-bounds cell and have the same toDense() content.
C26_ContentIgnoresBackend ==
    op.name = "fromCOO" =>
        /\ \A i \in 0..(A.impl.rows - 1), j \in 0..(A.impl.cols - 1) :
               MatrixGet(A, i, j) = MatrixGet(B, i, j)
        /\ MatrixToDense(A) = MatrixToDense(B)

\* the second of two repack() calls in a row leaves the representation of the first
SecondRepackKeeps == M'.impl = M.impl /\ M'.ref = M.ref /\ M'.threshold = M.threshold

\* two repack() calls in a row: the state is the one after the first, the step the second
RepackAfterRepack == op.name = "repack" /\ op'.name = "repack"

\* the representation stores one entry per non-zero cell: a dense representation, or
\* a CSR whose values.length is its number of non-zero cells
StoresNonZeroOnly(F) == IsDense(F.impl) \/ Len(F.impl.values) = NonZeroCells(F)

\* C27 as stated: for every facade reachable through the constructors and the
\* operations (results of mul by the scalar 0 included), a second repack() right after
\* a first one leaves the backend and the representation as the first left them.
C27_RepackIdempotent ==
    [][RepackAfterRepack => SecondRepackKeeps]_vars

\* C27: a second repack() right after a first one leaves the backend and the
\* representation as the first left them whenever the facade before the first call was
\* dense-backed or was a CSR with values.length equal to its number of non-zero cells.
C27_RepackIdempotentWithoutStoredZero ==
    [][(RepackAfterRepack /\ StoresNonZeroOnly(Mprev)) => SecondRepackKeeps]_vars

\* a repack that converted the representation, with no set before it, was followed by
\* a repack that kept it
C27_Witness ==
    /\ op.name = "repack"
    /\ steps = 0
    /\ M.ref = 1
    /\ Mprev = M

\* C28: CSRMatrix.fromCOO and Matrix.fromCOO leave the caller's entries list as it
\* was: after the call it holds the same triplets in the same order.
C28_EntriesUnchanged ==
    op.name \in {"CSRMatrix.fromCOO", "Matrix.fromCOO"} => ea.now = ea.given

\* product of the entries number k of the row of A and of the column of B, A being
\* 1 x MaxInner and B MaxInner x 1, both full
DotTerm(k) == At(A.values, k) * At(B.values, k)

\* C30: for every pair of integer-valued CSR operands of compatible shapes the Map
\* version of CSR x CSR (which deletes a column as soon as its running sum is exactly
\* 0) and the two-pass version (which prunes zeros when it compacts the row) return
\* the same values, colIndex and rowPtr.
C30_VersionsAgree ==
    op.name = "mul" =>
        /\ IsCSR(C[1]) /\ IsCSR(C[2])
        /\ C[1].values = C[2].values
        /\ C[1].colIndex = C[2].colIndex
        /\ C[1].rowPtr = C[2].rowPtr
        /\ C[1].rows = C[2].rows /\ C[1].cols = C[2].cols

\* the running sum of a column came back to 0 after two products, the Map deleted the
\* column, and a third product put it back
C30_Witness ==
    /\ op.name = "mul"
    /\ A.rows = 1 /\ B.cols = 1
    /\ Len(A.values) = MaxInner /\ Len(B.values) = MaxInner
    /\ DotTerm(0) # 0 /\ DotTerm(0) + DotTerm(1) = 0 /\ DotTerm(2) # 0
    /\ C[2].values = <<DotTerm(2)>>

====
